---- MODULE Spec2Model ----
(***************************************************************************)
(* A model of nerdwm, an X11 window manager.                               *)
(*                                                                         *)
(* Part 1 models Workspace (src/src/workspace/mod.rs): the focus-ordered   *)
(* client stack, the interaction mode and the pointer-driven move/resize,  *)
(* together with the part of the X server the Workspace talks to through   *)
(* nerdwm-x11's Window wrapper.  Every match arm of Workspace::send_event  *)
(* is one action; the requests a handler issues are collected in order and *)
(* applied to the server state.                                            *)
(***************************************************************************)
EXTENDS Integers, Sequences, FiniteSets, TLC

(* ------------------------------ bounds -------------------------------- *)
\* Application windows that may exist at the same time.
MaxWindows == 2
\* Frames the window manager creates during one run (Xlib hands out fresh
\* resource ids in increasing order, so frame ids are never reused).
MaxFrames == 3
\* Application windows in the runs that only push and focus (SpecFocus).
MaxFocusWindows == 3
\* Pointer coordinates range over 0..MaxCoord on both axes.
MaxCoord == 0
\* The same two bounds for the runs that exercise geometry (SpecGeom).
MaxGeomWindows == 1
MaxGeomCoord == 1
\* Window positions stay within -MaxExtent..MaxExtent and sizes within
\* 1..MaxExtent; an event that would lead outside is not generated.
MaxExtent == 2
\* Windows handed to a Desktop (SpecDesktop).
MaxDesktopWindows == 3
\* Threads sharing one AtomManager, and completed get calls per atom name
\* (SpecAtoms).
MaxThreads == 2
MaxCalls == 3
\* Application windows that exist, or come into existence, while the window
\* manager starts (SpecStartup).
MaxBootWindows == 2
\* Windows, pointer coordinates and window positions of the xcb event loop
\* (SpecLoop).
MaxLoopWindows == 2
MaxLoopCoord == 1
MaxLoopCoordY == 0
MaxLoopPos == 1

(* ------------------------------ identifiers --------------------------- *)
\* X's None window id.
NoWindow == 0
Windows == 1..MaxWindows
FocusWindows == 1..MaxFocusWindows
AppWindows == 1..(IF MaxWindows > MaxFocusWindows THEN MaxWindows ELSE MaxFocusWindows)
FirstFrame == 1 + (IF MaxWindows > MaxFocusWindows THEN MaxWindows ELSE MaxFocusWindows)
FrameIds == FirstFrame..(FirstFrame + MaxFrames - 1)
Root == FirstFrame + MaxFrames

Coords == 0..MaxCoord
GeomWindows == 1..MaxGeomWindows
GeomCoords == 0..MaxGeomCoord
\* xlib::Button1 .. Button3 are bound by input::Button; button 4 is unbound.
Buttons == 1..4
ModifierStates == {{}, {"Mod1"}}
\* The geometry runs press the move button and the resize button only.
GeomButtons == {1, 3}
GeomModifierStates == {{"Mod1"}}

\* xcb window ids handed to a Desktop.
DesktopWindows == 1..MaxDesktopWindows
\* Threads holding a reference to the shared AtomManager.
Threads == 1..MaxThreads
\* Two of the names ewmh::protocols interns through AtomManager::get.
AtomNames == {"_NET_CLIENT_LIST", "_NET_ACTIVE_WINDOW"}

Min(S) == CHOOSE x \in S : \A y \in S : x <= y

(* ------------------------------ configuration ------------------------- *)
\* A configuration as Config::new deserialises it: the key and mouse bindings
\* in file order and the focused / unfocused border styles.
config ==
  [keybinds |->
     << [action |-> "WindowClose", bind |-> "Q", modifiers |-> {"Mod1"}] >>,
   mousebinds |->
     << [action |-> "WindowMove",   bind |-> 1, modifiers |-> {"Mod1"}],
        [action |-> "WindowResize", bind |-> 3, modifiers |-> {"Mod1"}],
        [action |-> "WindowMove",   bind |-> 2, modifiers |-> {"Mod1"}],
        [action |-> "WindowResize", bind |-> 2, modifiers |-> {"Mod4"}] >>,
   layout |->
     [border           |-> [width |-> 2, color |-> 1],
      border_unfocused |-> [width |-> 1, color |-> 0]]]

(* ------------------------------ state --------------------------------- *)
VARIABLES
  clients,          \* Workspace.clients: sequence of ClientWindow, front = focused
  mode,             \* Workspace.mode
  prev_mouse,       \* Workspace.prev_mouse
  next_xid,         \* the next resource id Xlib allocates for a created window
  display,          \* the X server state behind DisplayContext
  event,            \* history: the last event handled
  reqs,             \* history: the requests issued while handling it, in order
  pre,              \* history: clients and mode before the last event
  drag,             \* history: the press that started the current uninterrupted
                    \*          move, the frame's position then, the motions since
  undo,             \* history: a push, and its removal by the very next event
  panicked,         \* the Workspace's thread has panicked: nothing runs after it
  desktop_clients,  \* Desktop.clients: sequence of xcb::Window, front = active
  root_hints,       \* the root window's _NET_CLIENT_LIST and _NET_ACTIVE_WINDOW
  called,           \* history: the last Desktop operation and its result
  atoms,            \* AtomManager.atoms: the cached id per name, 0 = no entry
  atoms_lock,       \* the thread holding the Mutex around atoms, 0 = unlocked
  getting,          \* per thread: the name it is interning inside get, "" = none
  server_atoms,     \* the X server's atom table: id per name, 0 = not interned
  interned,         \* history: InternAtom requests sent, per name
  returned,         \* history: the results of the completed get calls, per name
  boot,             \* the window manager starting: which implementation, the
                    \* step it is at, the root's children, the server grab
  boot_log,         \* history: the requests issued while starting, in order
  xwm,              \* the xcb WindowManager in run: mode, Desktop.last_mouse,
                    \* how run ended; beside it the server's windows
  handled           \* history: the last turn of the loop, and the window under
                    \*          the press that began the move it belongs to

workspace_vars ==
  << clients, mode, prev_mouse, next_xid, display, event, reqs, pre, drag, undo,
     panicked >>
desktop_vars == << desktop_clients, root_hints, called >>
atom_vars == << atoms, atoms_lock, getting, server_atoms, interned, returned >>
startup_vars == << boot, boot_log >>
loop_vars == << xwm, handled >>
vars == << workspace_vars, desktop_vars, atom_vars, startup_vars, loop_vars >>

ClientWindow(internal, frame) == [internal |-> internal, frame |-> frame]

ModeNone == [kind |-> "None"]
ModeMove(client) == [kind |-> "Move", client |-> client]
ModeResize(client) == [kind |-> "Resize", client |-> client]

\* XWindowAttributes of a window that does not exist: get_properties zeroes the
\* struct and XGetWindowAttributes leaves it untouched on failure.
ZeroAttributes == [x |-> 0, y |-> 0, width |-> 0, height |-> 0]

(* ------------------- the xcb event loop's data ------------------------ *)
LoopWindows == 1 .. MaxLoopWindows
LoopCoords == 0 .. MaxLoopCoord
LoopCoordsY == 0 .. MaxLoopCoordY
LoopPositions == 0 .. MaxLoopPos
LoopButtons == {1, 2, 3}
LoopModifierStates == {{}, {"Mod1"}}

\* i16, the type of the window and pointer coordinates of xcb: its range, and
\* the value a wrapping operation leaves for the mathematical result v.
I16Max == 32767
I16Min == 0 - I16Max - 1
I16 == I16Min .. I16Max
wrapping_i16(v) == ((v - I16Min) % (2 * (I16Max + 1))) + I16Min

\* The coordinates next to the ends of i16 where windows and the pointer
\* are put to exercise the arithmetic there.
EdgePositions == {I16Min, I16Min + 1, I16Max - 1, I16Max}

\* Option<(i16, i16)>: the empty sequence for None, the pair for Some.
None == << >>
Some(x, y) == << x, y >>

\* An event as the loop reads it: the window of a structure event, the child,
\* button (detail), modifier state and root coordinates of an input event.
LoopEv(kind, window, child, detail, state, root_x, root_y) ==
  [kind |-> kind, window |-> window, child |-> child, detail |-> detail,
   state |-> state, root_x |-> root_x, root_y |-> root_y]

\* The window manager after WindowManager::new and the server beside it:
\* no window yet, the connection sound.
Started ==
  [mode |-> "None", last_mouse |-> None, status |-> "running", build |-> "unknown",
   conn_error |-> FALSE, windows |-> {}, created |-> {},
   pos |-> [w \in LoopWindows |-> << 0, 0 >>]]

NothingHandled ==
  [event |-> LoopEv("none", NoWindow, NoWindow, 0, {}, 0, 0),
   action |-> None, mode |-> "None", requests |-> << >>, error |-> "none",
   pressed |-> NoWindow]

\* Before WindowManager::new is called: no implementation chosen, no window
\* on the server, the server not grabbed.
NotStarted ==
  [impl |-> "none", pc |-> 1, windows |-> {}, children |-> {},
   scanned |-> FALSE, found |-> << >>, todo |-> << >>, clients |-> << >>,
   grabbed |-> FALSE, result |-> "starting"]

\* A root window property nobody has written yet.
Unset == "unset"

\* An xlib::XWindowChanges with every field zero.
ZeroChanges ==
  [x |-> 0, y |-> 0, width |-> 0, height |-> 0, border_width |-> 0,
   sibling |-> 0, stack_mode |-> 0]

\* An event as send_event reads it: the window it names, and the fields of a
\* pointer event (button, modifier state, root coordinates) or of a configure
\* request (changes, value mask); fields an event does not carry are zero.
Ev(kind, window, button, x_root, y_root) ==
  [kind |-> kind, window |-> window, button |-> button,
   x_root |-> x_root, y_root |-> y_root,
   state |-> {}, changes |-> ZeroChanges, value_mask |-> {}]

(* ------------------------------ X requests ---------------------------- *)
\* The requests of nerdwm-x11's Window wrapper, as records in a request log.
Window_create(xid, parent, x, y, width, height, border_width, border_color) ==
  [op |-> "XCreateSimpleWindow", window |-> xid, parent |-> parent,
   x |-> x, y |-> y, width |-> width, height |-> height,
   border_width |-> border_width, border_color |-> border_color]
Window_map(xid) == [op |-> "XMapWindow", window |-> xid]
Window_unmap(xid) == [op |-> "XUnmapWindow", window |-> xid]
Window_raise(xid) == [op |-> "XRaiseWindow", window |-> xid]
Window_set_save_set(xid, saved) ==
  [op |-> IF saved THEN "XAddToSaveSet" ELSE "XRemoveFromSaveSet", window |-> xid]
Window_set_event_mask(xid) == [op |-> "XSelectInput", window |-> xid]
Window_get_properties(xid) == [op |-> "XGetWindowAttributes", window |-> xid]
Window_configure(xid, changes, value_mask) ==
  [op |-> "XConfigureWindow", window |-> xid, changes |-> changes,
   value_mask |-> value_mask]
Window_set_border_width(xid, width) ==
  [op |-> "XSetWindowBorderWidth", window |-> xid, width |-> width]
Window_set_border_color(xid, color) ==
  [op |-> "XSetWindowBorder", window |-> xid, color |-> color]
Window_reparent(xid, parent) ==
  [op |-> "XReparentWindow", window |-> xid, parent |-> parent]
Window_destroy(xid) == [op |-> "XDestroyWindow", window |-> xid]
\* The layout delegate's call, logged with the requests (FloatingLayoutManager
\* issues none of its own).
Layout_config(cs) == [op |-> "LayoutManager::config", window |-> NoWindow, clients |-> cs]

(* ------------------------------ X server ------------------------------ *)
Exists(d, xid) == xid = Root \/ (xid \in DOMAIN d.parent /\ d.parent[xid] # NoWindow)

\* The attributes XGetWindowAttributes returns.
Attributes(d, xid) ==
  IF xid \in DOMAIN d.geom /\ Exists(d, xid) THEN d.geom[xid] ELSE ZeroAttributes

RemoveFromSeq(s, x) == SelectSeq(s, LAMBDA e : e # x)

\* Destroying a window destroys its inferiors with it.
RECURSIVE Inferiors(_, _, _)
Inferiors(d, xid, fuel) ==
  IF fuel = 0 THEN {}
  ELSE LET kids == {k \in DOMAIN d.parent : d.parent[k] = xid}
       IN kids \cup UNION {Inferiors(d, k, fuel - 1) : k \in kids}

ServerDestroy(d, xid) ==
  LET gone == {xid} \cup Inferiors(d, xid, 2)
  IN [d EXCEPT
        !.parent = [k \in DOMAIN d.parent |-> IF k \in gone THEN NoWindow ELSE d.parent[k]],
        !.geom   = [k \in DOMAIN d.geom |-> IF k \in gone THEN ZeroAttributes ELSE d.geom[k]],
        !.border = [k \in DOMAIN d.border |->
                      IF k \in gone THEN [width |-> 0, color |-> 0] ELSE d.border[k]],
        !.save_set = d.save_set \ gone,
        !.stack = SelectSeq(d.stack, LAMBDA e : e \notin gone)]

\* The effect of one request on the server.  A request that names a window
\* that does not exist, or a zero or negative size, is answered with an error
\* (which on_x_error logs) and changes nothing.  A client's save-set takes
\* windows that other clients created: ChangeSaveSet on a window the window
\* manager created itself (a frame) is answered with a Match error.  Whether a
\* window is mapped is read neither by the Workspace nor by a property below
\* and is not kept.
Apply(d, r) ==
  CASE r.op = "XCreateSimpleWindow" ->
         IF Exists(d, r.parent) /\ r.width >= 1 /\ r.height >= 1
         THEN [d EXCEPT !.parent[r.window] = r.parent,
                        !.geom[r.window] = [x |-> r.x, y |-> r.y,
                                            width |-> r.width, height |-> r.height],
                        !.border[r.window] = [width |-> r.border_width,
                                              color |-> r.border_color],
                        !.stack = <<r.window>> \o d.stack]
         ELSE d
    [] r.op = "XRaiseWindow" ->
         IF Exists(d, r.window) /\ r.window \in FrameIds
         THEN [d EXCEPT !.stack = <<r.window>> \o RemoveFromSeq(@, r.window)]
         ELSE d
    [] r.op = "XAddToSaveSet" ->
         IF Exists(d, r.window) /\ r.window \notin FrameIds
         THEN [d EXCEPT !.save_set = @ \cup {r.window}] ELSE d
    [] r.op = "XRemoveFromSaveSet" ->
         IF Exists(d, r.window) THEN [d EXCEPT !.save_set = @ \ {r.window}] ELSE d
    [] r.op = "XReparentWindow" ->
         IF Exists(d, r.window) /\ Exists(d, r.parent) /\ r.window # Root
         THEN [d EXCEPT !.parent[r.window] = r.parent,
                        !.geom[r.window] = [@ EXCEPT !.x = 0, !.y = 0]]
         ELSE d
    [] r.op = "XConfigureWindow" ->
         IF ~ Exists(d, r.window) \/ r.window = Root THEN d
         ELSE IF ("width" \in r.value_mask /\ r.changes.width < 1)
                 \/ ("height" \in r.value_mask /\ r.changes.height < 1) THEN d
         ELSE [d EXCEPT
                 !.geom[r.window] =
                    [f \in DOMAIN @ |-> IF f \in r.value_mask THEN r.changes[f] ELSE @[f]],
                 !.border[r.window] =
                    [@ EXCEPT !.width = IF "border_width" \in r.value_mask
                                        THEN r.changes.border_width ELSE @]]
    [] r.op = "XSetWindowBorderWidth" ->
         IF Exists(d, r.window) /\ r.window # Root
         THEN [d EXCEPT !.border[r.window].width = r.width] ELSE d
    [] r.op = "XSetWindowBorder" ->
         IF Exists(d, r.window) /\ r.window # Root
         THEN [d EXCEPT !.border[r.window].color = r.color] ELSE d
    [] r.op = "XDestroyWindow" ->
         IF Exists(d, r.window) /\ r.window # Root THEN ServerDestroy(d, r.window) ELSE d
    [] OTHER -> d

RECURSIVE ApplyAll(_, _)
ApplyAll(d, rs) == IF rs = <<>> THEN d ELSE ApplyAll(Apply(d, Head(rs)), Tail(rs))

\* A from_window that reparents the window before the frame is in the
\* save-set.
from_window_reparent_first(d, window, border) ==
  LET properties == Attributes(d, window)
      frame == next_xid
  IN [client |-> ClientWindow(window, frame),
      reqs |-> << Window_get_properties(window),
                  Window_create(frame, Root, properties.x, properties.y,
                                properties.width, properties.height,
                                border.width, border.color),
                  Window_set_event_mask(frame),
                  Window_reparent(window, frame),
                  Window_set_save_set(frame, TRUE) >>]

(* ------------------------------ ClientWindow -------------------------- *)
\* A from_window that creates the frame and leaves the window where it is.
from_window_not_reparented(d, window, border) ==
  LET properties == Attributes(d, window)
      frame == next_xid
  IN [client |-> ClientWindow(window, frame),
      reqs |-> << Window_get_properties(window),
                  Window_create(frame, Root, properties.x, properties.y,
                                properties.width, properties.height,
                                border.width, border.color),
                  Window_set_event_mask(frame),
                  Window_set_save_set(frame, TRUE) >>]

\* ClientWindow::from_window: frame the window.  The result holds the client
\* and the requests issued, in order.
from_window(d, window, border) ==
  LET properties == Attributes(d, window)
      frame == next_xid
  IN [client |-> ClientWindow(window, frame),
      reqs |-> << Window_get_properties(window),
                  Window_create(frame, Root, properties.x, properties.y,
                                properties.width, properties.height,
                                border.width, border.color),
                  Window_set_event_mask(frame),
                  Window_set_save_set(frame, TRUE),
                  Window_reparent(window, frame) >>]

\* A ClientWindow::destroy that drops the save-set protection before it
\* reparents the window.
ClientWindow_destroy_unprotect_first(client, reparent) ==
  << Window_unmap(client.frame), Window_set_save_set(client.frame, FALSE) >>
  \o (IF reparent THEN << Window_reparent(client.internal, Root) >> ELSE << >>)
  \o << Window_destroy(client.frame) >>

\* ClientWindow::destroy: tear the frame down.
ClientWindow_destroy(client, reparent) ==
  (IF reparent THEN << Window_reparent(client.internal, Root) >> ELSE << >>)
  \o << Window_unmap(client.frame),
        Window_set_save_set(client.frame, FALSE),
        Window_destroy(client.frame) >>

(* ------------------------------ Workspace ----------------------------- *)
\* Positions are 1-based here (Rust's index i is position i + 1); 0 is None.
get_client(cs, xid) ==
  LET hits == {i \in 1..Len(cs) : cs[i].internal = xid}
  IN IF hits = {} THEN 0 ELSE Min(hits)

get_client_from_frame(cs, xid) ==
  LET hits == {i \in 1..Len(cs) : cs[i].frame = xid}
  IN IF hits = {} THEN 0 ELSE Min(hits)

\* Vec::remove(pos)
Remove(cs, pos) == SubSeq(cs, 1, pos - 1) \o SubSeq(cs, pos + 1, Len(cs))

\* Workspace::unfocus_update(index), index being Rust's 0-based index.
unfocus_update(cs, index) ==
  IF Len(cs) = index + 1
  THEN << Window_set_border_width(cs[index + 1].frame,
                                  config.layout.border_unfocused.width),
          Window_set_border_color(cs[index + 1].frame,
                                  config.layout.border_unfocused.color) >>
  ELSE << >>

\* A focus_update that restyles the client and leaves the stacking alone.
focus_update_not_raised(cs, client) ==
  LET inserted == << client >> \o cs
  IN [clients |-> inserted,
      reqs |-> << Window_set_border_width(client.frame, config.layout.border.width),
                  Window_set_border_color(client.frame, config.layout.border.color) >>
               \o (IF Len(inserted) > 1 THEN unfocus_update(inserted, 1) ELSE << >>)]

\* Workspace::focus_update(client) on the client sequence cs.
focus_update(cs, client) ==
  LET inserted == << client >> \o cs
  IN [clients |-> inserted,
      reqs |-> << Window_raise(client.frame),
                  Window_set_border_width(client.frame, config.layout.border.width),
                  Window_set_border_color(client.frame, config.layout.border.color) >>
               \o (IF Len(inserted) > 1 THEN unfocus_update(inserted, 1) ELSE << >>)]

\* Workspace::push(window)
push(d, window) ==
  LET made == from_window(d, window, config.layout.border)
      focused == focus_update(clients, made.client)
  IN [clients |-> focused.clients,
      reqs |-> made.reqs
               \o << Window_map(made.client.frame), Window_map(made.client.internal) >>
               \o focused.reqs
               \o << Layout_config(focused.clients) >>]

\* What a handler leaves behind: the Workspace fields and the requests issued.
Outcome(cs, m, pm, rs) == [clients |-> cs, mode |-> m, prev_mouse |-> pm, reqs |-> rs]

\* A create handler that manages the window at once.
on_WindowCreate_pushes(d, window) ==
  LET pushed == push(d, window)
  IN Outcome(pushed.clients, mode, prev_mouse, pushed.reqs)

\* send_event, Event::WindowCreate: logged only.
on_WindowCreate(d, window) == Outcome(clients, mode, prev_mouse, << >>)

\* A configure request handler that configures the window and not its frame.
on_WindowConfigureRequest_window_only(d, window, changes, value_mask) ==
  Outcome(clients, mode, prev_mouse,
          << Window_configure(window, changes, value_mask) >>)

\* send_event, Event::WindowConfigureRequest
on_WindowConfigureRequest(d, window, changes, value_mask) ==
  LET pos == get_client(clients, window)
  IN Outcome(clients, mode, prev_mouse,
             (IF pos # 0
              THEN << Window_configure(clients[pos].frame, changes, value_mask) >>
              ELSE << >>)
             \o << Window_configure(window, changes, value_mask) >>)

\* A map request handler that pushes without looking the window up.
on_WindowMapRequest_unchecked(d, window) ==
  LET pushed == push(d, window)
  IN Outcome(pushed.clients, mode, prev_mouse, pushed.reqs)

\* send_event, Event::WindowMapRequest
on_WindowMapRequest(d, window) ==
  IF get_client(clients, window) = 0
  THEN LET pushed == push(d, window)
       IN Outcome(pushed.clients, mode, prev_mouse, pushed.reqs)
  ELSE Outcome(clients, mode, prev_mouse, << >>)

\* An unmap handler that releases the client without reparenting.
on_WindowUnmap_no_reparent(d, window) ==
  LET pos == get_client(clients, window)
  IN IF pos # 0
     THEN Outcome(Remove(clients, pos), mode, prev_mouse,
                  ClientWindow_destroy(clients[pos], FALSE))
     ELSE Outcome(clients, mode, prev_mouse, << >>)

\* send_event, Event::WindowUnmap
on_WindowUnmap(d, window) ==
  LET pos == get_client(clients, window)
  IN IF pos # 0
     THEN Outcome(Remove(clients, pos), mode, prev_mouse,
                  ClientWindow_destroy(clients[pos], TRUE))
     ELSE Outcome(clients, mode, prev_mouse, << >>)

\* A destroy handler that releases the client as the unmap handler does.
on_WindowDestroy_reparent(d, window) ==
  LET pos == get_client(clients, window)
  IN IF pos # 0
     THEN Outcome(Remove(clients, pos), mode, prev_mouse,
                  ClientWindow_destroy(clients[pos], TRUE))
     ELSE Outcome(clients, mode, prev_mouse, << >>)

\* send_event, Event::WindowDestroy
on_WindowDestroy(d, window) ==
  LET pos == get_client(clients, window)
  IN IF pos # 0
     THEN Outcome(Remove(clients, pos), mode, prev_mouse,
                  ClientWindow_destroy(clients[pos], FALSE))
     ELSE Outcome(clients, mode, prev_mouse, << >>)

\* The loop over config.mousebinds in the ButtonPress arm: every binding with
\* the pressed button assigns the mode in turn.
RECURSIVE bind_loop(_, _, _, _)
bind_loop(i, m, button, client) ==
  IF i > Len(config.mousebinds) THEN m
  ELSE LET bind == config.mousebinds[i]
       IN bind_loop(i + 1,
                    IF button = bind.bind
                    THEN CASE bind.action = "WindowMove" -> ModeMove(client)
                           [] bind.action = "WindowResize" -> ModeResize(client)
                           [] OTHER -> m
                    ELSE m,
                    button, client)

\* A ButtonPress arm that leaves the pressed client where it is in the stack.
on_ButtonPress_not_fronted(d, subwindow, button, state, x_root, y_root) ==
  LET pos == get_client_from_frame(clients, subwindow)
  IN IF pos # 0
     THEN Outcome(clients, bind_loop(1, mode, button, clients[pos]),
                  << x_root, y_root >>, << >>)
     ELSE Outcome(clients, mode, << x_root, y_root >>, << >>)

\* send_event, Event::ButtonPress
on_ButtonPress(d, subwindow, button, state, x_root, y_root) ==
  LET pos == get_client_from_frame(clients, subwindow)
  IN IF pos # 0
     THEN LET focused == focus_update(Remove(clients, pos), clients[pos])
          IN Outcome(focused.clients, bind_loop(1, mode, button, clients[pos]),
                     << x_root, y_root >>, focused.reqs)
     ELSE Outcome(clients, mode, << x_root, y_root >>, << >>)

\* A motion handler that keeps the pointer position of the press.
motion_prev_mouse_kept(x_root, y_root) == prev_mouse

\* The PointerMotion arm's last statement: remember the pointer position.
motion_prev_mouse(x_root, y_root) == << x_root, y_root >>

\* A motion handler whose Resize arm leaves the frame at its old size.
on_PointerMotion_internal_only(d, x_root, y_root) ==
  LET dx == x_root - prev_mouse[1]
      dy == y_root - prev_mouse[2]
  IN CASE mode.kind = "Move" ->
            LET properties == Attributes(d, mode.client.frame)
                changes == [ZeroChanges EXCEPT !.x = properties.x + dx,
                                               !.y = properties.y + dy]
            IN Outcome(clients, mode, motion_prev_mouse(x_root, y_root),
                       << Window_get_properties(mode.client.frame),
                          Window_configure(mode.client.frame, changes, {"x", "y"}) >>)
       [] mode.kind = "Resize" ->
            LET properties == Attributes(d, mode.client.internal)
                changes == [ZeroChanges EXCEPT !.width = properties.width + dx,
                                               !.height = properties.height + dy]
            IN Outcome(clients, mode, motion_prev_mouse(x_root, y_root),
                       << Window_get_properties(mode.client.internal),
                          Window_configure(mode.client.internal, changes,
                                           {"width", "height"}) >>)
       [] OTHER -> Outcome(clients, mode, motion_prev_mouse(x_root, y_root), << >>)

\* send_event, Event::PointerMotion
on_PointerMotion(d, x_root, y_root) ==
  LET dx == x_root - prev_mouse[1]
      dy == y_root - prev_mouse[2]
  IN CASE mode.kind = "Move" ->
            LET properties == Attributes(d, mode.client.frame)
                changes == [ZeroChanges EXCEPT !.x = properties.x + dx,
                                               !.y = properties.y + dy]
            IN Outcome(clients, mode, motion_prev_mouse(x_root, y_root),
                       << Window_get_properties(mode.client.frame),
                          Window_configure(mode.client.frame, changes, {"x", "y"}) >>)
       [] mode.kind = "Resize" ->
            LET properties == Attributes(d, mode.client.internal)
                changes == [ZeroChanges EXCEPT !.width = properties.width + dx,
                                               !.height = properties.height + dy]
            IN Outcome(clients, mode, motion_prev_mouse(x_root, y_root),
                       << Window_get_properties(mode.client.internal),
                          Window_configure(mode.client.internal, changes,
                                           {"width", "height"}),
                          Window_configure(mode.client.frame, changes,
                                           {"width", "height"}) >>)
       [] OTHER -> Outcome(clients, mode, motion_prev_mouse(x_root, y_root), << >>)

\* A release handler that leaves the mode only on a bound button.
on_ButtonRelease_bound_only(button, state) ==
  Outcome(clients,
          IF \E i \in 1..Len(config.mousebinds) : config.mousebinds[i].bind = button
          THEN ModeNone ELSE mode,
          prev_mouse, << >>)

\* send_event, Event::ButtonRelease
on_ButtonRelease(button, state) == Outcome(clients, ModeNone, prev_mouse, << >>)

\* send_event, every other event (KeyPress, KeyRelease, Unknown)
on_other == Outcome(clients, mode, prev_mouse, << >>)

\* Workspace::pop(index), index being Rust's 0-based index into clients.
\* Vec::remove(0) panics on an empty vector: the client at index is out of
\* clients by then and nothing has been requested of the server.
pop(index) ==
  LET client == clients[index + 1]
      rest == Remove(clients, index + 1)
  IN IF rest = << >>
     THEN [panicked |-> TRUE, outcome |-> Outcome(rest, mode, prev_mouse, << >>)]
     ELSE LET focused == focus_update(Remove(rest, 1), rest[1])
          IN [panicked |-> FALSE,
              outcome |-> Outcome(focused.clients, mode, prev_mouse,
                                  focused.reqs \o ClientWindow_destroy(client, FALSE))]

(* ------------------------------ events -------------------------------- *)
\* The geometry an application gives a window it creates.
CreateGeometries == { [x |-> 0, y |-> 0, width |-> 1, height |-> 1] }
GeomCreateGeometries == { [x |-> 1, y |-> 0, width |-> 1, height |-> 2] }

\* The value masks and values of the configure requests applications send.
ConfigureMasks == { {"x", "y"}, {"width", "height"}, {"border_width"} }
ConfigureChanges ==
  { [ZeroChanges EXCEPT !.x = 0, !.y = 1, !.width = 2, !.height = 1, !.border_width = 3] }

\* Every configure request of the log stays within the modelled extent.
WithinExtent(rs) ==
  \A i \in 1..Len(rs) :
    rs[i].op = "XConfigureWindow" =>
      /\ \A f \in rs[i].value_mask \cap {"x", "y"} :
           rs[i].changes[f] \in (0 - MaxExtent)..MaxExtent
      /\ \A f \in rs[i].value_mask \cap {"width", "height"} :
           rs[i].changes[f] <= MaxExtent

NoDrag == [frame |-> NoWindow, x |-> 0, y |-> 0, px |-> 0, py |-> 0, n |-> 0]

\* A press that leaves the mode at Move starts a drag; motions continue it (the
\* count stops at two); any other event ends it.
NextDrag(ev, out, after) ==
  IF ev.kind = "ButtonPress" /\ out.mode.kind = "Move"
  THEN [frame |-> out.mode.client.frame,
        x |-> Attributes(after, out.mode.client.frame).x,
        y |-> Attributes(after, out.mode.client.frame).y,
        px |-> ev.x_root, py |-> ev.y_root, n |-> 0]
  ELSE IF ev.kind = "PointerMotion" /\ mode.kind = "Move" /\ drag.frame # NoWindow
  THEN [drag EXCEPT !.n = IF @ < 2 THEN @ + 1 ELSE @]
  ELSE NoDrag

NoUndo == [stage |-> "none", window |-> NoWindow, clients |-> << >>]

NextUndo(ev) ==
  IF ev.kind = "WindowMapRequest" /\ get_client(clients, ev.window) = 0
  THEN [stage |-> "pushed", window |-> ev.window, clients |-> clients]
  ELSE IF ev.kind = "WindowUnmap" /\ undo.stage = "pushed" /\ undo.window = ev.window
  THEN [undo EXCEPT !.stage = "removed"]
  ELSE NoUndo

\* The event loop hands event ev to send_event: d0 is the server state the
\* event reports, out the handler's outcome; its requests reach the server in
\* order before the next event is read.
Deliver(ev, d0, out) ==
  /\ ~ panicked
  /\ WithinExtent(out.reqs)
  /\ event' = ev
  /\ pre' = [clients |-> clients, mode |-> mode]
  /\ clients' = out.clients
  /\ mode' = out.mode
  /\ prev_mouse' = out.prev_mouse
  /\ reqs' = out.reqs
  /\ display' = ApplyAll(d0, out.reqs)
  /\ next_xid' = next_xid
                 + Cardinality({i \in 1..Len(out.reqs) :
                                  out.reqs[i].op = "XCreateSimpleWindow"})
  /\ drag' = NextDrag(ev, out, ApplyAll(d0, out.reqs))
  /\ undo' = NextUndo(ev)
  /\ panicked' = panicked
  /\ UNCHANGED << desktop_vars, atom_vars, startup_vars, loop_vars >>

\* An application creates window w; the server reports CreateNotify.
WindowCreate(w, g) ==
  /\ ~ Exists(display, w)
  /\ Deliver(Ev("WindowCreate", w, 0, 0, 0),
             [display EXCEPT !.parent[w] = Root, !.geom[w] = g],
             on_WindowCreate(display, w))

\* An application asks to configure its window w.
WindowConfigureRequest(w, changes, value_mask) ==
  /\ Exists(display, w)
  /\ Deliver([Ev("WindowConfigureRequest", w, 0, 0, 0)
                EXCEPT !.changes = changes, !.value_mask = value_mask], display,
             on_WindowConfigureRequest(display, w, changes, value_mask))

\* An application asks to map its window w.
WindowMapRequest(w) ==
  /\ Exists(display, w)
  /\ get_client(clients, w) = 0 => next_xid \in FrameIds
  /\ Deliver(Ev("WindowMapRequest", w, 0, 0, 0), display,
             on_WindowMapRequest(display, w))

\* Window w was unmapped.
WindowUnmap(w) ==
  /\ Exists(display, w)
  /\ Deliver(Ev("WindowUnmap", w, 0, 0, 0), display, on_WindowUnmap(display, w))

\* Window w was destroyed.
WindowDestroy(w) ==
  /\ Exists(display, w)
  /\ LET d0 == ServerDestroy(display, w)
     IN Deliver(Ev("WindowDestroy", w, 0, 0, 0), d0, on_WindowDestroy(d0, w))

\* A button goes down with the pointer at (x_root, y_root) over child
\* subwindow of the root (a frame, or NoWindow over the bare root).
ButtonPress(subwindow, button, state, x_root, y_root) ==
  /\ subwindow # NoWindow => Exists(display, subwindow)
  /\ Deliver([Ev("ButtonPress", subwindow, button, x_root, y_root)
                EXCEPT !.state = state], display,
             on_ButtonPress(display, subwindow, button, state, x_root, y_root))

\* The pointer moves to (x_root, y_root).
PointerMotion(x_root, y_root) ==
  /\ x_root \in Int
  /\ Deliver(Ev("PointerMotion", NoWindow, 0, x_root, y_root), display,
             on_PointerMotion(display, x_root, y_root))

\* A button goes up.
ButtonRelease(button, state) ==
  /\ button \in Int
  /\ Deliver(Ev("ButtonRelease", NoWindow, 0, 0, 0), display,
             on_ButtonRelease(button, state))

\* KeyPress, KeyRelease and events the wrapper does not know.
OtherEvent(kind) ==
  /\ kind \in STRING
  /\ Deliver(Ev(kind, NoWindow, 0, 0, 0), display, on_other)

Init ==
  /\ clients = << >>
  /\ mode = ModeNone
  /\ prev_mouse = << 0, 0 >>
  /\ next_xid = FirstFrame
  /\ display = [parent   |-> [k \in AppWindows \cup FrameIds |-> NoWindow],
                geom     |-> [k \in AppWindows \cup FrameIds |-> ZeroAttributes],
                border   |-> [k \in AppWindows \cup FrameIds |-> [width |-> 0, color |-> 0]],
                save_set |-> {},
                stack    |-> << >>]
  /\ event = Ev("None", NoWindow, 0, 0, 0)
  /\ reqs = << >>
  /\ pre = [clients |-> << >>, mode |-> ModeNone]
  /\ drag = NoDrag
  /\ undo = NoUndo
  /\ panicked = FALSE
  /\ desktop_clients = << >>
  /\ root_hints = [client_list |-> Unset, active_window |-> Unset]
  /\ called = [op |-> "none", window |-> NoWindow, ok |-> TRUE]
  /\ atoms = [n \in AtomNames |-> 0]
  /\ atoms_lock = 0
  /\ getting = [t \in Threads |-> ""]
  /\ server_atoms = [n \in AtomNames |-> 0]
  /\ interned = [n \in AtomNames |-> 0]
  /\ returned = [n \in AtomNames |-> << >>]
  /\ boot = NotStarted
  /\ boot_log = << >>
  /\ xwm = Started
  /\ handled = NothingHandled

\* The events of a session in which applications own the windows W and create
\* them with a geometry of G, the pointer stays on the points P x P and
\* configure requests carry a mask of M.
Events(W, G, P, M) ==
  \/ \E w \in W, g \in G : WindowCreate(w, g)
  \/ \E w \in W, c \in ConfigureChanges, m \in M : WindowConfigureRequest(w, c, m)
  \/ \E w \in W : WindowMapRequest(w)
  \/ \E w \in W : WindowUnmap(w)
  \/ \E w \in W : WindowDestroy(w)
  \/ \E sub \in FrameIds \cup {NoWindow}, b \in Buttons, st \in ModifierStates,
        x \in P, y \in P : ButtonPress(sub, b, st, x, y)
  \/ \E x \in P, y \in P : PointerMotion(x, y)
  \/ \E b \in Buttons, st \in ModifierStates : ButtonRelease(b, st)
  \/ \E k \in {"KeyPress", "KeyRelease", "Unknown"} : OtherEvent(k)

\* The whole life cycle: MaxWindows windows, border-width configure requests.
Next == Events(Windows, CreateGeometries, Coords, { {"border_width"} })

Spec == Init /\ [][Next]_vars

\* Geometry: fewer windows that stay once mapped, a wider pointer range and
\* every configure mask.
NextGeom ==
  \/ \E w \in GeomWindows, g \in GeomCreateGeometries : WindowCreate(w, g)
  \/ \E w \in GeomWindows, c \in ConfigureChanges, m \in ConfigureMasks :
       WindowConfigureRequest(w, c, m)
  \/ \E w \in GeomWindows : WindowMapRequest(w)
  \/ \E sub \in FrameIds \cup {NoWindow}, b \in GeomButtons, st \in GeomModifierStates,
        x \in GeomCoords, y \in GeomCoords : ButtonPress(sub, b, st, x, y)
  \/ \E x \in GeomCoords, y \in GeomCoords : PointerMotion(x, y)
  \/ \E b \in GeomButtons, st \in GeomModifierStates : ButtonRelease(b, st)

SpecGeom == Init /\ [][NextGeom]_vars

\* Pushes and focus updates only: more windows, no removal, no configure request.
NextFocus ==
  \/ \E w \in FocusWindows, g \in CreateGeometries : WindowCreate(w, g)
  \/ \E w \in FocusWindows : WindowMapRequest(w)
  \/ \E sub \in FrameIds \cup {NoWindow}, b \in Buttons, st \in ModifierStates,
        x \in Coords, y \in Coords : ButtonPress(sub, b, st, x, y)

SpecFocus == Init /\ [][NextFocus]_vars

\* The owner of the Workspace calls pop(index); a panic unwinds out of it with
\* the fields as the panicking statement found them.
Pop(index) ==
  /\ ~ panicked
  /\ index \in 0..(Len(clients) - 1)
  /\ LET out == pop(index)
         ev == Ev("pop", clients[index + 1].internal, 0, 0, 0)
     IN IF out.panicked
        THEN /\ panicked' = TRUE
             /\ event' = ev
             /\ pre' = [clients |-> clients, mode |-> mode]
             /\ clients' = out.outcome.clients
             /\ reqs' = out.outcome.reqs
             /\ UNCHANGED << mode, prev_mouse, next_xid, display, drag, undo >>
             /\ UNCHANGED << desktop_vars, atom_vars, startup_vars, loop_vars >>
        ELSE Deliver(ev, display, out.outcome)

\* Windows are created and mapped, and any client is popped.
NextPop ==
  \/ \E w \in FocusWindows, g \in CreateGeometries : WindowCreate(w, g)
  \/ \E w \in FocusWindows : WindowMapRequest(w)
  \/ \E sub \in FrameIds, b \in {1}, st \in {{}}, x \in Coords, y \in Coords :
       ButtonPress(sub, b, st, x, y)
  \/ \E i \in 0..(MaxFocusWindows - 1) : Pop(i)

SpecPop == Init /\ [][NextPop]_vars

\* Presses and releases on a deeper stack: the windows of SpecFocus, every
\* button with the bindings' modifier, the pointer anywhere on a row.
NextPress ==
  \/ \E w \in FocusWindows, g \in CreateGeometries : WindowCreate(w, g)
  \/ \E w \in FocusWindows : WindowMapRequest(w)
  \/ \E sub \in FrameIds \cup {NoWindow}, b \in Buttons, st \in GeomModifierStates,
        x \in GeomCoords, y \in Coords : ButtonPress(sub, b, st, x, y)
  \/ \E b \in GeomButtons, st \in GeomModifierStates : ButtonRelease(b, st)

SpecPress == Init /\ [][NextPress]_vars

(* ------------------------------ Desktop ------------------------------- *)
(* Part 2 models Desktop (src/src/wm/desktop.rs), the client stack of the  *)
(* xcb window manager, and the two root window hints it publishes through  *)
(* EWMHManager (src/src/wm/ewmh.rs).  Every request of an operation is     *)
(* checked and `?` returns at the first error, so an operation takes the   *)
(* step that fails as an input: "none" for a call that returns Ok, or the  *)
(* name of the first request the server answers with an error.             *)

\* Vec::iter().position(): the 1-based index of client, 0 for None.
position(cs, client) ==
  IF \E i \in 1..Len(cs) : cs[i] = client
    THEN Min({i \in 1..Len(cs) : cs[i] = client})
    ELSE 0

\* EWMHManager::update_active_window: one property replace on the root window.
update_active_window(hints, active) == [hints EXCEPT !.active_window = active]

\* EWMHManager::update_client_list: one property replace on the root window.
update_client_list(hints, cs) == [hints EXCEPT !.client_list = cs]

DesktopOutcome(cs, hints, ok) == [clients |-> cs, hints |-> hints, ok |-> ok]

\* A focus that puts a client the desktop does not hold yet at the back.
Desktop_focus_new_at_back(client, fail) ==
  LET p  == position(desktop_clients, client)
      cs == IF p # 0 THEN << client >> \o Remove(desktop_clients, p)
                     ELSE desktop_clients \o << client >>
  IN  IF fail \in {"map_window", "active_window"}
        THEN DesktopOutcome(cs, root_hints, FALSE)
      ELSE IF fail = "client_list"
        THEN DesktopOutcome(cs, update_active_window(root_hints, client), FALSE)
      ELSE DesktopOutcome(cs,
             update_client_list(update_active_window(root_hints, client), cs),
             TRUE)

\* Desktop::focus.  BlankLayout::configure always returns Ok.
Desktop_focus(client, fail) ==
  LET p  == position(desktop_clients, client)
      cs == IF p # 0 THEN << client >> \o Remove(desktop_clients, p)
                     ELSE << client >> \o desktop_clients
  IN  IF fail = "map_window" THEN DesktopOutcome(cs, root_hints, FALSE)
      ELSE IF fail = "active_window" THEN DesktopOutcome(cs, root_hints, FALSE)
      ELSE IF fail = "client_list"
        THEN DesktopOutcome(cs, update_active_window(root_hints, client), FALSE)
      ELSE DesktopOutcome(cs,
             update_client_list(update_active_window(root_hints, client), cs),
             TRUE)

\* Desktop::remove with the final update_client_list left out.
Desktop_remove_unpublished(client, fail) ==
  LET p  == position(desktop_clients, client)
      cs == IF p # 0 THEN Remove(desktop_clients, p) ELSE desktop_clients
  IN  DesktopOutcome(cs, root_hints, fail = "none")

\* Desktop::remove.
Desktop_remove(client, fail) ==
  LET p  == position(desktop_clients, client)
      cs == IF p # 0 THEN Remove(desktop_clients, p) ELSE desktop_clients
  IN  IF fail = "unmap_window" THEN DesktopOutcome(cs, root_hints, FALSE)
      ELSE IF fail = "client_list" THEN DesktopOutcome(cs, root_hints, FALSE)
      ELSE DesktopOutcome(cs, update_client_list(root_hints, cs), TRUE)

\* Desktop::show: maps every client, then publishes the stack.
Desktop_show(fail) ==
  IF fail = "none"
    THEN DesktopOutcome(desktop_clients,
                        update_client_list(root_hints, desktop_clients), TRUE)
    ELSE DesktopOutcome(desktop_clients, root_hints, FALSE)

\* Desktop::hide: unmaps every client, then publishes the empty slice.
Desktop_hide(fail) ==
  IF fail = "none"
    THEN DesktopOutcome(desktop_clients,
                        update_client_list(root_hints, << >>), TRUE)
    ELSE DesktopOutcome(desktop_clients, root_hints, FALSE)

DesktopCall(op, window, out) ==
  /\ desktop_clients' = out.clients
  /\ root_hints' = out.hints
  /\ called' = [op |-> op, window |-> window, ok |-> out.ok]
  /\ UNCHANGED << workspace_vars, atom_vars, startup_vars, loop_vars >>

DesktopFocus(client, fail) ==
  /\ fail \in {"none", "map_window", "active_window", "client_list"}
  /\ DesktopCall("focus", client, Desktop_focus(client, fail))

DesktopRemove(client, fail) ==
  /\ fail \in {"none", "unmap_window", "client_list"}
  /\ DesktopCall("remove", client, Desktop_remove(client, fail))

\* A map request can only fail when there is a client to map.
DesktopShow(fail) ==
  /\ fail \in {"none", "map_window", "client_list"}
  /\ fail = "map_window" => desktop_clients # << >>
  /\ DesktopCall("show", NoWindow, Desktop_show(fail))

DesktopHide(fail) ==
  /\ fail \in {"none", "unmap_window", "client_list"}
  /\ fail = "unmap_window" => desktop_clients # << >>
  /\ DesktopCall("hide", NoWindow, Desktop_hide(fail))

Failures == {"none", "map_window", "unmap_window", "active_window", "client_list"}

NextDesktop ==
  \/ \E w \in DesktopWindows, f \in Failures : DesktopFocus(w, f)
  \/ \E w \in DesktopWindows, f \in Failures : DesktopRemove(w, f)
  \/ \E f \in Failures : DesktopShow(f)
  \/ \E f \in Failures : DesktopHide(f)

SpecDesktop == Init /\ [][NextDesktop]_vars

(* ------------------------------ AtomManager --------------------------- *)
(* Part 3 models AtomManager::get (src/src/atoms.rs) called from threads   *)
(* that share the manager.  get holds the Mutex from its first line until  *)
(* it returns, the round trip of a cache miss included, so a call is one   *)
(* step when the name is cached and two steps, request and reply, when it  *)
(* is not.                                                                 *)

Ok(val, requests) == [ok |-> TRUE, atom |-> val, requests |-> requests]
Err(requests) == [ok |-> FALSE, atom |-> 0, requests |-> requests]

\* InternAtom with only_if_exists = false: the id of the name, allocated on
\* first use and kept for the life of the server.
intern_atom(table, name) ==
  IF table[name] # 0 THEN table
  ELSE [table EXCEPT ![name] =
          1 + Cardinality({n \in AtomNames : table[n] # 0})]

\* get that forgets to store the reply.
cache_insert_skipped(cache, name, val) == cache

\* atoms_lock.insert(name, val)
cache_insert(cache, name, val) == [cache EXCEPT ![name] = val]

\* A guard that is dropped before the request is sent.
MutexGuard_dropped_early(t) == 0

\* let mut atoms_lock = self.atoms.lock().unwrap(): the guard lives until get
\* returns, and the mutex names the thread that holds it.
MutexGuard(t) == t

Calling(name) == Cardinality({t \in Threads : getting[t] = name})

\* lock(), then the cached branch: Ok(*val); the guard is dropped on return.
AtomGetCached(t, name) ==
  /\ atoms_lock = 0
  /\ getting[t] = ""
  /\ atoms[name] # 0
  /\ Len(returned[name]) + Calling(name) < MaxCalls
  /\ returned' = [returned EXCEPT ![name] = Append(@, Ok(atoms[name], 0))]
  /\ UNCHANGED << atoms, atoms_lock, getting, server_atoms, interned >>
  /\ UNCHANGED << workspace_vars, desktop_vars, startup_vars, loop_vars >>

\* lock(), then the other branch up to the request: xcb::intern_atom is sent
\* and the thread waits in get_reply with the lock held.
AtomGetIntern(t, name) ==
  /\ atoms_lock = 0
  /\ getting[t] = ""
  /\ atoms[name] = 0
  /\ Len(returned[name]) + Calling(name) < MaxCalls
  /\ atoms_lock' = MutexGuard(t)
  /\ getting' = [getting EXCEPT ![t] = name]
  /\ interned' = [interned EXCEPT ![name] = @ + 1]
  /\ UNCHANGED << atoms, server_atoms, returned >>
  /\ UNCHANGED << workspace_vars, desktop_vars, startup_vars, loop_vars >>

\* A get whose error return leaves the mutex locked.
AtomGetReply_error_keeps_lock(t, ok) ==
  /\ getting[t] # ""
  /\ atoms_lock = t
  /\ LET name  == getting[t]
         table == intern_atom(server_atoms, name)
     IN  IF ok
           THEN /\ server_atoms' = table
                /\ atoms' = cache_insert(atoms, name, table[name])
                /\ returned' = [returned EXCEPT
                                  ![name] = Append(@, Ok(table[name], 1))]
           ELSE /\ returned' = [returned EXCEPT ![name] = Append(@, Err(1))]
                /\ UNCHANGED << atoms, server_atoms >>
  /\ atoms_lock' = IF ok THEN 0 ELSE t
  /\ getting' = [getting EXCEPT ![t] = ""]
  /\ UNCHANGED interned
  /\ UNCHANGED << workspace_vars, desktop_vars, startup_vars, loop_vars >>

\* get_reply returns: the reply is stored and returned, or `?` returns the
\* error; either way the guard is dropped.
AtomGetReply(t, ok) ==
  /\ getting[t] # ""
  /\ atoms_lock = t
  /\ LET name  == getting[t]
         table == intern_atom(server_atoms, name)
     IN  IF ok
           THEN /\ server_atoms' = table
                /\ atoms' = cache_insert(atoms, name, table[name])
                /\ returned' = [returned EXCEPT
                                  ![name] = Append(@, Ok(table[name], 1))]
           ELSE /\ returned' = [returned EXCEPT ![name] = Append(@, Err(1))]
                /\ UNCHANGED << atoms, server_atoms >>
  /\ atoms_lock' = 0
  /\ getting' = [getting EXCEPT ![t] = ""]
  /\ UNCHANGED interned
  /\ UNCHANGED << workspace_vars, desktop_vars, startup_vars, loop_vars >>

NextAtoms ==
  \/ \E t \in Threads, n \in AtomNames : AtomGetCached(t, n)
  \/ \E t \in Threads, n \in AtomNames : AtomGetIntern(t, n)
  \/ \E t \in Threads, ok \in BOOLEAN : AtomGetReply(t, ok)

SpecAtoms == Init /\ [][NextAtoms]_vars

(***************************************************************************)
(* Part 4.  Starting the window manager.                                   *)
(*                                                                         *)
(* WindowManager::new of src/wm.rs (Xlib) and WindowManager::new / init of *)
(* src/wm/mod.rs (xcb), each as a sequential program whose steps issue     *)
(* requests in program order.  The connection delivers requests to the     *)
(* server in the order they were issued, so the log of issued requests is  *)
(* the order in which the server acts on them.  While the server is        *)
(* grabbed it acts on no other client's request: no window is created.     *)
(***************************************************************************)
BootWindows == 1 .. MaxBootWindows

\* The configuration of the xcb window manager (wm/config.rs): a list of
\* actions, each with an optional key binding and an optional mouse binding
\* (an Option is a sequence of at most one element).
wm_config ==
  [actions |->
     << [action |-> "FloatingWindowMove", keybind |-> << >>,
         mousebind |-> << [button |-> 1, modifiers |-> {"Mod1"}] >>],
        [action |-> "WindowManagerQuit",
         keybind |-> << [keysym |-> "Q", modifiers |-> {"Mod1"}] >>,
         mousebind |-> << >>],
        [action |-> "FloatingWindowResize", keybind |-> << >>,
         mousebind |-> << [button |-> 3, modifiers |-> {"Mod1"}] >>],
        [action |-> "WindowManagerRestart", keybind |-> << >>,
         mousebind |-> << [button |-> 1, modifiers |-> {"Mod1"}] >>] >>]

\* The requests of the display context and of the root window.
Context_grab_server == [op |-> "XGrabServer", window |-> NoWindow]
Context_ungrab_server == [op |-> "XUngrabServer", window |-> NoWindow]
Context_flush == [op |-> "XSync", window |-> NoWindow]
Context_get_next_event == [op |-> "XNextEvent", window |-> NoWindow]
Context_grab_key(window, key, modifiers) ==
  [op |-> "XGrabKey", window |-> window, key |-> key, modifiers |-> modifiers]
Context_grab_button(window, button, modifiers) ==
  [op |-> "XGrabButton", window |-> window, button |-> button,
   modifiers |-> modifiers]
Window_get_children(xid) == [op |-> "XQueryTree", window |-> xid]
Window_set_properties(xid) == [op |-> "XChangeWindowAttributes", window |-> xid]

\* grab_binds: one key grab per key binding, then one button grab per mouse
\* binding, in configuration order.
grab_binds(window) ==
  [i \in 1 .. Len(config.keybinds) |->
     Context_grab_key(window, config.keybinds[i].bind, config.keybinds[i].modifiers)]
  \o [i \in 1 .. Len(config.mousebinds) |->
        Context_grab_button(window, config.mousebinds[i].bind,
                            config.mousebinds[i].modifiers)]

\* init_root: the root's cursor and event mask, then the bindings on the root.
init_root ==
  << Window_set_properties(Root), Window_set_event_mask(Root) >> \o grab_binds(Root)

\* push_client: frame the window with the attributes it has (every window of
\* BootWindows is 1 by 1 at the origin), reparent it into the frame, grab the
\* bindings on it.
push_client(window, frame) ==
  << Window_get_properties(window),
     Window_create(frame, Root, 0, 0, 1, 1, config.layout.border.width,
                   config.layout.border.color),
     Window_set_event_mask(frame),
     Window_set_save_set(frame, TRUE),
     Window_map(frame),
     Window_reparent(window, frame),
     Window_map(window) >> \o grab_binds(window)

\* The binding grabs of the xcb init, in the order of the action list; a grab
\* that fails (fail_at names its action) is skipped: its error is dropped.
RECURSIVE grab_bindings(_, _)
grab_bindings(i, failed) ==
  IF i > Len(wm_config.actions) THEN << >>
  ELSE LET action == wm_config.actions[i]
           keys == IF action.keybind # << >> /\ i \notin failed
                   THEN << Context_grab_key(Root, action.keybind[1].keysym,
                                            action.keybind[1].modifiers) >>
                   ELSE << >>
           buttons == IF action.mousebind # << >> /\ i \notin failed
                      THEN << Context_grab_button(Root, action.mousebind[1].button,
                                                  action.mousebind[1].modifiers) >>
                      ELSE << >>
       IN keys \o buttons \o grab_bindings(i + 1, failed)

\* The body of WindowManager::new (wm.rs), followed by the first step of run.
WindowManager_new_scan_before_grab ==
  << "set_event_mask", "flush", "init_root", "flush", "get_children",
     "grab_server", "push_client", "ungrab_server", "get_next_event" >>
WindowManager_new ==
  << "set_event_mask", "flush", "init_root", "flush", "grab_server",
     "get_children", "push_client", "ungrab_server", "get_next_event" >>

\* The body of WindowManager::init (wm/mod.rs), followed by the first step of
\* run.
WindowManager_init_grab_after_release ==
  << "change_window_attributes", "set_supported", "set_pid", "set_name",
     "update_active_window", "update_desktops", "conn_flush",
     "grab_server_checked", "ungrab_server_checked", "grab_bindings", "conn_flush",
     "get_event" >>
WindowManager_init ==
  << "change_window_attributes", "set_supported", "set_pid", "set_name",
     "update_active_window", "update_desktops", "conn_flush",
     "grab_server_checked", "grab_bindings", "ungrab_server_checked", "conn_flush",
     "get_event" >>

Program(impl) ==
  CASE impl = "xlib" -> WindowManager_new
    [] impl = "xcb" -> WindowManager_init
    [] OTHER -> << >>

\* The step the starting window manager is at.
Instr(b) ==
  IF b.result = "starting" /\ b.pc <= Len(Program(b.impl))
  THEN Program(b.impl)[b.pc] ELSE "done"

\* One step taken: the requests it issued, the fields it changed.
Step(b, requests) ==
  /\ boot' = [b EXCEPT !.pc = boot.pc + 1]
  /\ boot_log' = boot_log \o requests
  /\ UNCHANGED << workspace_vars, desktop_vars, atom_vars, loop_vars >>

\* Another client creates a top-level window.  The server acts on the
\* request only while no other connection holds the server grab.
ClientCreatesWindow(w) ==
  /\ ~boot.grabbed
  /\ w \notin boot.windows
  /\ boot' = [boot EXCEPT !.windows = @ \cup {w}, !.children = @ \cup {w}]
  /\ UNCHANGED << boot_log, workspace_vars, desktop_vars, atom_vars, loop_vars >>

\* main: one of the two window managers is started.
Connect(impl) ==
  /\ boot.impl = "none"
  /\ boot' = [boot EXCEPT !.impl = impl]
  /\ UNCHANGED << boot_log, workspace_vars, desktop_vars, atom_vars, loop_vars >>

(* ----------------------- WindowManager::new (wm.rs) -------------------- *)
BootSetEventMask ==
  /\ Instr(boot) = "set_event_mask"
  /\ Step(boot, << Window_set_event_mask(Root) >>)

BootFlush ==
  /\ Instr(boot) = "flush"
  /\ Step(boot, << Context_flush >>)

BootInitRoot ==
  /\ Instr(boot) = "init_root"
  /\ Step(boot, init_root)

BootGrabServer ==
  /\ Instr(boot) = "grab_server"
  /\ Step([boot EXCEPT !.grabbed = TRUE], << Context_grab_server >>)

\* get_children returns the root's children in the server's stacking order,
\* which the model leaves open: any order of the children.
BootGetChildren ==
  /\ Instr(boot) = "get_children"
  /\ \E order \in [1 .. Cardinality(boot.children) -> boot.children] :
       /\ \A i, j \in DOMAIN order : i # j => order[i] # order[j]
       /\ Step([boot EXCEPT !.found = order, !.todo = order, !.scanned = TRUE],
               << Window_get_children(Root) >>)

\* One turn of the loop over the children; the step after the loop is
\* reached when no child is left.
BootPushClient ==
  /\ Instr(boot) = "push_client"
  /\ IF boot.todo = << >>
     THEN Step(boot, << >>)
     ELSE LET window == Head(boot.todo)
              frame == FirstFrame + Len(boot.clients)
          IN /\ boot' = [boot EXCEPT
                           !.todo = Tail(@),
                           !.children = (@ \ {window}) \cup {frame},
                           !.clients = Append(@, [internal |-> window,
                                                  frame |-> frame])]
             /\ boot_log' = boot_log \o push_client(window, frame)
             /\ UNCHANGED << workspace_vars, desktop_vars, atom_vars, loop_vars >>

BootUngrabServer ==
  /\ Instr(boot) = "ungrab_server"
  /\ Step([boot EXCEPT !.grabbed = FALSE], << Context_ungrab_server >>)

\* run: the first event is fetched.
BootGetNextEvent ==
  /\ Instr(boot) = "get_next_event"
  /\ Step([boot EXCEPT !.result = "running"], << Context_get_next_event >>)

(* ---------------------- WindowManager::init (wm/mod.rs) ---------------- *)
\* A checked request whose error `?` returns: init and new return the error,
\* the window manager is dropped and with it the connection, which releases
\* the server grab if it was held.
InitFailed(b) == [b EXCEPT !.result = "failed", !.grabbed = FALSE]

\* The steps before the grab: the root's event mask and the EWMH properties,
\* each a checked request.
InitChecked ==
  /\ Instr(boot) \in {"change_window_attributes", "set_supported", "set_pid",
                      "set_name", "update_active_window", "update_desktops"}
  /\ \E ok \in BOOLEAN :
       Step(IF ok THEN boot ELSE InitFailed(boot),
            << [op |-> Instr(boot), window |-> Root] >>)

\* Connection::flush writes the queued requests out; it returns no error.
InitFlush ==
  /\ Instr(boot) = "conn_flush"
  /\ Step(boot, << [op |-> "xcb_flush", window |-> NoWindow] >>)

InitGrabServer ==
  /\ Instr(boot) = "grab_server_checked"
  /\ \E ok \in BOOLEAN :
       Step(IF ok THEN [boot EXCEPT !.grabbed = TRUE] ELSE InitFailed(boot),
            << Context_grab_server >>)

InitGrabBindings ==
  /\ Instr(boot) = "grab_bindings"
  /\ \E failed \in SUBSET (1 .. Len(wm_config.actions)) :
       Step(boot, grab_bindings(1, failed))

InitUngrabServer ==
  /\ Instr(boot) = "ungrab_server_checked"
  /\ \E ok \in BOOLEAN :
       Step(IF ok THEN [boot EXCEPT !.grabbed = FALSE] ELSE InitFailed(boot),
            << Context_ungrab_server >>)

\* run: the connection is flushed and the first event is waited for.
InitGetEvent ==
  /\ Instr(boot) = "get_event"
  /\ Step([boot EXCEPT !.result = "running"], << Context_get_next_event >>)

NextStartup ==
  \/ \E w \in BootWindows : ClientCreatesWindow(w)
  \/ \E impl \in {"xlib", "xcb"} : Connect(impl)
  \/ BootSetEventMask
  \/ BootFlush
  \/ BootInitRoot
  \/ BootGrabServer
  \/ BootGetChildren
  \/ BootPushClient
  \/ BootUngrabServer
  \/ BootGetNextEvent
  \/ InitChecked
  \/ InitFlush
  \/ InitGrabServer
  \/ InitGrabBindings
  \/ InitUngrabServer
  \/ InitGetEvent

SpecStartup == Init /\ [][NextStartup]_vars

(***************************************************************************)
(* Part 5.  The event loop of the xcb window manager.                      *)
(*                                                                         *)
(* WindowManager::run (src/wm/mod.rs) with event_to_action and             *)
(* Desktop::do_action (src/wm/desktop.rs).  One action is one turn of the  *)
(* loop: the event is fetched, resolved into an action and executed.  An   *)
(* event waits in the connection's queue before it is fetched, so it may   *)
(* name a window another client has destroyed in the meantime; a checked   *)
(* request on such a window is answered with an error.                     *)
(***************************************************************************)
\* The checked requests of Desktop's handlers.
map_window_checked(window) == [op |-> "map_window", window |-> window]
get_geometry(window) == [op |-> "get_geometry", window |-> window]
configure_window_checked(window, x, y) ==
  [op |-> "configure_window", window |-> window, x |-> x, y |-> y]

\* A press resolved to the last binding that matches instead of the first.
press_loop_last_match(i, e) ==
  LET hits == {j \in i..Len(wm_config.actions) :
                 /\ wm_config.actions[j].mousebind # << >>
                 /\ wm_config.actions[j].mousebind[1].modifiers = e.state
                 /\ wm_config.actions[j].mousebind[1].button = e.detail}
  IN IF hits = {} THEN [mode |-> "None", action |-> None]
     ELSE LET action == wm_config.actions[CHOOSE j \in hits : \A k \in hits : k <= j]
          IN [mode |-> IF action.action = "FloatingWindowMove"
                       THEN "MovingWindow" ELSE "None",
              action |-> << action.action >>]

\* event_to_action: the mode after the call and the action returned (None or
\* the action's type; the event travels with it).
RECURSIVE press_loop(_, _)
press_loop(i, e) ==
  IF i > Len(wm_config.actions) THEN [mode |-> "None", action |-> None]
  ELSE LET action == wm_config.actions[i]
       IN IF /\ action.mousebind # << >>
             /\ action.mousebind[1].modifiers = e.state
             /\ action.mousebind[1].button = e.detail
          THEN [mode |-> IF action.action = "FloatingWindowMove"
                         THEN "MovingWindow" ELSE "None",
                action |-> << action.action >>]
          ELSE press_loop(i + 1, e)

RECURSIVE release_loop(_, _)
release_loop(i, e) ==
  IF i > Len(wm_config.actions) THEN [mode |-> "MovingWindow", action |-> None]
  ELSE LET action == wm_config.actions[i]
       IN IF action.mousebind # << >> /\ action.mousebind[1].button = e.detail
          THEN [mode |-> IF action.action = "FloatingWindowMove"
                         THEN "None" ELSE "MovingWindow",
                action |-> << action.action >>]
          ELSE release_loop(i + 1, e)

event_to_action(wm_mode, e) ==
  CASE e.kind = "ButtonPress" /\ wm_mode = "None" -> press_loop(1, e)
    [] e.kind = "ButtonRelease" /\ wm_mode = "MovingWindow" -> release_loop(1, e)
    [] e.kind = "PointerMotion" /\ wm_mode = "MovingWindow" ->
         [mode |-> wm_mode, action |-> << "FloatingWindowMove" >>]
    [] e.kind = "WindowMapRequest" ->
         [mode |-> wm_mode, action |-> << "WindowFocus" >>]
    [] OTHER -> [mode |-> wm_mode, action |-> None]

\* What a handler leaves behind: the Desktop's fields, the windows' positions,
\* the requests issued and whether it returned Ok.
LoopOutcome(cs, hints, last_mouse, pos, requests, ok) ==
  [clients |-> cs, hints |-> hints, last_mouse |-> last_mouse, pos |-> pos,
   requests |-> requests, ok |-> ok, overflow |-> FALSE]

\* Desktop::focus inside the loop: the map request fails on a window that is
\* gone; the property requests on the root do not.
focus(w, client, before) ==
  LET out == Desktop_focus(client, IF client \in w.windows THEN "none"
                                                            ELSE "map_window")
  IN LoopOutcome(out.clients, out.hints, w.last_mouse, w.pos,
                 before \o << map_window_checked(client) >>, out.ok)

focus_handler(w, e) ==
  CASE e.kind = "WindowMapRequest" ->
         IF e.window \in w.windows
         THEN focus(w, e.window, << map_window_checked(e.window) >>)
         ELSE LoopOutcome(desktop_clients, root_hints, w.last_mouse, w.pos,
                          << map_window_checked(e.window) >>, FALSE)
    [] e.kind = "ButtonPress" /\ e.child # 0 -> focus(w, e.child, << >>)
    [] OTHER -> LoopOutcome(desktop_clients, root_hints, w.last_mouse, w.pos,
                            << >>, TRUE)

\* A move handler that keeps the last pointer position when the button goes up.
move_handler_keeps_last_mouse(w, e) ==
  LET f == focus_handler(w, e)
  IN IF ~f.ok THEN f
     ELSE CASE e.kind = "PointerMotion" /\ e.child # 0 /\ w.last_mouse # None ->
                 IF e.child \notin w.windows
                 THEN [f EXCEPT !.requests = @ \o << get_geometry(e.child) >>,
                                !.ok = FALSE]
                 ELSE LET x == w.pos[e.child][1] + (e.root_x - w.last_mouse[1])
                          y == w.pos[e.child][2] + (e.root_y - w.last_mouse[2])
                      IN [f EXCEPT
                            !.requests = @ \o << get_geometry(e.child),
                                                 configure_window_checked(e.child, x, y) >>,
                            !.pos[e.child] = << x, y >>,
                            !.last_mouse = Some(e.root_x, e.root_y)]
            [] e.kind = "ButtonPress" /\ e.child # 0 ->
                 [f EXCEPT !.last_mouse = Some(e.root_x, e.root_y)]
            [] OTHER -> f

\* Desktop::move_handler.  The new position is computed in i16: a sum or a
\* difference outside i16 is an overflow, on which the build decides (see Turn);
\* the outcome here carries the wrapped value.  The cast to u32 sign-extends and
\* the server reads the low 16 bits back as INT16, which is the same i16 value.
move_handler(w, e) ==
  LET f == focus_handler(w, e)
  IN IF ~f.ok THEN f
     ELSE CASE e.kind = "PointerMotion" /\ e.child # 0 /\ w.last_mouse # None ->
                 IF e.child \notin w.windows
                 THEN [f EXCEPT !.requests = @ \o << get_geometry(e.child) >>,
                                !.ok = FALSE]
                 ELSE LET dx == e.root_x - w.last_mouse[1]
                          dy == e.root_y - w.last_mouse[2]
                          x == w.pos[e.child][1] + wrapping_i16(dx)
                          y == w.pos[e.child][2] + wrapping_i16(dy)
                      IN [f EXCEPT
                            !.requests = @ \o << get_geometry(e.child),
                                                 configure_window_checked(
                                                   e.child, wrapping_i16(x),
                                                   wrapping_i16(y)) >>,
                            !.pos[e.child] = << wrapping_i16(x), wrapping_i16(y) >>,
                            !.last_mouse = Some(e.root_x, e.root_y),
                            !.overflow = \E v \in {dx, dy, x, y} : v \notin I16]
            [] e.kind = "ButtonPress" /\ e.child # 0 ->
                 [f EXCEPT !.last_mouse = Some(e.root_x, e.root_y)]
            [] e.kind = "ButtonRelease" -> [f EXCEPT !.last_mouse = None]
            [] OTHER -> f

\* Desktop::do_action; BlankLayout::configure always returns Ok.
do_action(w, ty, e) ==
  CASE ty = "FloatingWindowMove" -> move_handler(w, e)
    [] ty = "WindowFocus" -> focus_handler(w, e)
    [] OTHER -> LoopOutcome(desktop_clients, root_hints, w.last_mouse, w.pos,
                            << >>, TRUE)

\* One turn of run: has_error() is Ok, the event is fetched and resolved,
\* the action (if any) is executed and `?` returns its error out of run.
\* An arithmetic overflow in the action panics in a build with overflow checks
\* (debug), after the geometry reply and before the configure request, and
\* wraps in a build without them (release); which build runs is not known
\* until the first overflow.
\* The resolved action a and the handler's outcome out are computed once, as
\* the single elements of the sets they are drawn from.
Turn(e) ==
  /\ xwm.status = "running"
  /\ ~xwm.conn_error
  /\ \E a \in {event_to_action(xwm.mode, e)} :
     \E out \in {IF a.action = None
                  THEN LoopOutcome(desktop_clients, root_hints, xwm.last_mouse,
                                   xwm.pos, << >>, TRUE)
                  ELSE do_action(xwm, a.action[1], e)} :
        \E build \in {"debug", "release"} :
          LET panics == out.overflow /\ build = "debug"
          IN /\ IF out.overflow THEN xwm.build \in {"unknown", build}
                                ELSE build = "release"
             /\ panics \/ \A c \in LoopWindows, k \in 1..2 :
                             out.pos[c][k] \in LoopPositions \cup EdgePositions
             /\ xwm' = IF panics
                       THEN [xwm EXCEPT !.mode = a.mode, !.status = "panicked",
                                        !.build = build]
                       ELSE [xwm EXCEPT
                               !.mode = a.mode,
                               !.last_mouse = out.last_mouse,
                               !.pos = out.pos,
                               !.status = IF out.ok THEN "running" ELSE "returned_err",
                               !.build = IF out.overflow THEN build ELSE @]
             /\ desktop_clients' = out.clients
             /\ root_hints' = out.hints
             /\ handled' = [event |-> e, action |-> a.action, mode |-> xwm.mode,
                            requests |-> IF panics
                                         THEN SubSeq(out.requests, 1,
                                                     Len(out.requests) - 1)
                                         ELSE out.requests,
                            error |-> IF panics THEN "panic"
                                      ELSE IF out.ok THEN "none" ELSE "protocol",
                            pressed |-> IF xwm.mode = "MovingWindow" THEN handled.pressed
                                        ELSE IF a.mode = "MovingWindow" THEN e.child
                                        ELSE NoWindow]
  /\ UNCHANGED << called, workspace_vars, atom_vars, startup_vars >>

LoopMapRequest(window) ==
  /\ window \in xwm.created
  /\ Turn(LoopEv("WindowMapRequest", window, NoWindow, 0, {}, 0, 0))

LoopButtonPress(child, detail, state, x, y) ==
  /\ child \in xwm.created \cup {NoWindow}
  /\ Turn(LoopEv("ButtonPress", Root, child, detail, state, x, y))

\* Of a release the loop reads the button only.
LoopButtonRelease(detail, state) ==
  /\ detail \in LoopButtons
  /\ Turn(LoopEv("ButtonRelease", Root, NoWindow, detail, state, 0, 0))

\* Of a motion the loop reads the child and the root coordinates.
LoopPointerMotion(child, x, y) ==
  /\ child \in xwm.created \cup {NoWindow}
  /\ Turn(LoopEv("PointerMotion", Root, child, 0, {}, x, y))

\* The structure notifications and everything else the loop reads.
LoopNotify(kind, window) ==
  /\ kind \in {"WindowCreate", "WindowDestroy", "WindowUnmap", "Unknown"}
  /\ window \in xwm.created
  /\ kind = "WindowDestroy" => window \notin xwm.windows
  /\ Turn(LoopEv(kind, window, NoWindow, 0, {}, 0, 0))

\* Other clients create and destroy their top-level windows.
LoopClientCreates(window) ==
  /\ xwm.status = "running"
  /\ window \notin xwm.created
  /\ xwm' = [xwm EXCEPT !.windows = @ \cup {window}, !.created = @ \cup {window}]
  /\ UNCHANGED << handled, desktop_vars, workspace_vars, atom_vars, startup_vars >>

LoopClientDestroys(window) ==
  /\ xwm.status = "running"
  /\ window \in xwm.windows
  /\ xwm' = [xwm EXCEPT !.windows = @ \ {window}]
  /\ UNCHANGED << handled, desktop_vars, workspace_vars, atom_vars, startup_vars >>

\* The connection breaks (the server goes away, an I/O error).
ConnectionBreaks ==
  /\ xwm.status = "running"
  /\ ~xwm.conn_error
  /\ xwm' = [xwm EXCEPT !.conn_error = TRUE]
  /\ UNCHANGED << handled, desktop_vars, workspace_vars, atom_vars, startup_vars >>

\* run ends on a broken connection: has_error() at the head of the loop ends
\* it with Ok, wait_for_event returning None inside get_event with the error.
LoopEnds(status) ==
  /\ xwm.status = "running"
  /\ xwm.conn_error
  /\ status \in {"returned_ok", "returned_err"}
  /\ xwm' = [xwm EXCEPT !.status = status]
  /\ handled' = [NothingHandled EXCEPT !.mode = xwm.mode, !.error = "connection"]
  /\ UNCHANGED << desktop_vars, workspace_vars, atom_vars, startup_vars >>

NextLoop ==
  \/ \E w \in LoopWindows : LoopMapRequest(w)
  \/ \E c \in LoopWindows \cup {NoWindow}, b \in LoopButtons,
        s \in LoopModifierStates, x \in LoopCoords, y \in LoopCoordsY :
       LoopButtonPress(c, b, s, x, y)
  \/ \E b \in LoopButtons, s \in LoopModifierStates : LoopButtonRelease(b, s)
  \/ \E c \in LoopWindows \cup {NoWindow}, x \in LoopCoords, y \in LoopCoordsY :
       LoopPointerMotion(c, x, y)
  \/ \E k \in {"WindowCreate", "WindowDestroy", "WindowUnmap", "Unknown"},
        w \in LoopWindows :
       LoopNotify(k, w)
  \/ \E w \in LoopWindows : LoopClientCreates(w)
  \/ \E w \in LoopWindows : LoopClientDestroys(w)
  \/ ConnectionBreaks
  \/ \E s \in {"returned_ok", "returned_err"} : LoopEnds(s)

SpecLoop == Init /\ [][NextLoop]_vars

\* Another client creates its top-level window at x on the root.
LoopClientCreatesAt(window, x) ==
  /\ xwm.status = "running"
  /\ window \notin xwm.created
  /\ xwm' = [xwm EXCEPT !.windows = @ \cup {window}, !.created = @ \cup {window},
                        !.pos[window] = << x, 0 >>]
  /\ UNCHANGED << handled, desktop_vars, workspace_vars, atom_vars, startup_vars >>

\* A move at the ends of i16: one window, created at the origin or at an end
\* of the range, and the move button pressed, dragged and released with the
\* pointer at the origin, next to it or at the right end.
EdgeCoords == {0, 1, I16Max}

NextMove16 ==
  \/ \E x \in {I16Min, 0, I16Max} : LoopClientCreatesAt(1, x)
  \/ \E c \in {1, NoWindow}, x \in EdgeCoords : LoopButtonPress(c, 1, {"Mod1"}, x, 0)
  \/ LoopButtonRelease(1, {"Mod1"})
  \/ \E c \in {1, NoWindow}, x \in EdgeCoords : LoopPointerMotion(c, x, 0)

SpecMove16 == Init /\ [][NextMove16]_vars

(* ====================================================================== *)
(*                              Properties                                *)
(* ====================================================================== *)

\* Positions of the requests of the last handler that equal r.
Issued(r) == {i \in 1..Len(reqs) : reqs[i] = r}

\* The last event named a window that had a client when the event arrived.
HadClient == get_client(pre.clients, event.window) # 0
OldClient == pre.clients[get_client(pre.clients, event.window)]

\* C1: after pushes and focus updates only, the client at index 0 carries the
\* focused border width and color and every other client the unfocused ones.
FocusInvariant ==
  \A i \in 1..Len(clients) :
    display.border[clients[i].frame] =
      IF i = 1 THEN config.layout.border ELSE config.layout.border_unfocused

\* C2: no window id is the internal window of two clients, and a map request
\* for a window that has a client creates no frame and leaves clients as it was.
NoDuplicateAdoption ==
  /\ \A i, j \in 1..Len(clients) :
       i # j => clients[i].internal # clients[j].internal
  /\ (event.kind = "WindowMapRequest" /\ HadClient) =>
       /\ clients = pre.clients
       /\ \A i \in 1..Len(reqs) : reqs[i].op # "XCreateSimpleWindow"
       /\ reqs = << >>

DuplicateMapRequestSeen ==
  event.kind = "WindowMapRequest" /\ HadClient /\ Len(clients) = 2

\* C3: a push of an unmanaged window, undone by an unmap notification for it as
\* the very next event, leaves the client sequence as it was before the push
\* and the window a child of the root.
PushPopSymmetry ==
  undo.stage = "removed" =>
    /\ clients = undo.clients
    /\ display.parent[undo.window] = Root

PushThenPopSeen ==
  undo.stage = "removed" /\ event.kind = "WindowUnmap" /\ Len(clients) >= 1

\* C4: during an uninterrupted move the frame sits at its position at the press
\* plus (last pointer position - press position); every motion requests exactly
\* that position and the last pointer position is the latest event's.
MoveDelta ==
  (drag.frame # NoWindow /\ mode.kind = "Move") =>
    /\ mode.client.frame = drag.frame
    /\ event.kind \in {"ButtonPress", "PointerMotion"}
    /\ prev_mouse = << event.x_root, event.y_root >>
    /\ Attributes(display, drag.frame).x = drag.x + (event.x_root - drag.px)
    /\ Attributes(display, drag.frame).y = drag.y + (event.y_root - drag.py)
    /\ event.kind = "PointerMotion" =>
         /\ Len(reqs) = 2
         /\ reqs[2].op = "XConfigureWindow"
         /\ reqs[2].window = drag.frame
         /\ reqs[2].value_mask = {"x", "y"}
         /\ reqs[2].changes.x = drag.x + (event.x_root - drag.px)
         /\ reqs[2].changes.y = drag.y + (event.y_root - drag.py)

TwoMotionsSeen ==
  /\ drag.frame # NoWindow /\ mode.kind = "Move" /\ drag.n = 2
  /\ event.kind = "PointerMotion"
  /\ event.x_root # drag.px /\ event.y_root # drag.py
  /\ Attributes(display, drag.frame).x # drag.x

\* C5: while the mode is Resize, no pointer motion issues a configure request
\* with a zero or negative width or height.
ResizeFloor ==
  (event.kind = "PointerMotion" /\ pre.mode.kind = "Resize") =>
    \A i \in 1..Len(reqs) :
      reqs[i].op = "XConfigureWindow" =>
        reqs[i].changes.width >= 1 /\ reqs[i].changes.height >= 1

\* C6: after a ButtonRelease is handled the mode is None.
ReleaseExitsMode == event.kind = "ButtonRelease" => mode = ModeNone

ReleaseInModeSeen ==
  event.kind = "ButtonRelease" /\ pre.mode.kind = "Resize" /\ Len(clients) >= 1

\* C9: when a client is released with reparenting, the reparent of the internal
\* window to the root comes before the removal of the frame from the save-set,
\* which comes before the destruction of the frame.
ReleaseOrder ==
  (event.kind = "WindowUnmap" /\ HadClient) =>
    \E i, j, k \in 1..Len(reqs) :
      /\ i < j /\ j < k
      /\ Issued(Window_reparent(OldClient.internal, Root)) = {i}
      /\ Issued(Window_set_save_set(OldClient.frame, FALSE)) = {j}
      /\ Issued(Window_destroy(OldClient.frame)) = {k}

GracefulReleaseSeen ==
  event.kind = "WindowUnmap" /\ HadClient /\ display.parent[event.window] = Root

\* C10: a WindowDestroy for a managed window removes its client, removes the
\* frame from the save-set and destroys the frame, and no request names the
\* destroyed window.
DestroySkipsReparent ==
  (event.kind = "WindowDestroy" /\ HadClient) =>
    /\ get_client(clients, event.window) = 0
    /\ clients = Remove(pre.clients, get_client(pre.clients, event.window))
    /\ \E j, k \in 1..Len(reqs) :
         /\ j < k
         /\ Issued(Window_set_save_set(OldClient.frame, FALSE)) = {j}
         /\ Issued(Window_destroy(OldClient.frame)) = {k}
    /\ ~ Exists(display, OldClient.frame)
    /\ \A i \in 1..Len(reqs) :
         reqs[i].window # event.window /\ reqs[i].op # "XReparentWindow"

ManagedDestroySeen ==
  event.kind = "WindowDestroy" /\ HadClient /\ Len(clients) = 1

\* C7: after a Desktop operation (focus, remove, show, hide) that returned Ok,
\* the _NET_CLIENT_LIST last written to the root window is the clients stack,
\* the same ids in the same order.
HintConsistency ==
  (called.ok /\ called.op \in {"focus", "remove", "show", "hide"}) =>
    root_hints.client_list = desktop_clients

\* C8: once a get for a name has returned an id, the next get for that name
\* returns the same id from the cache without a request, so that two calls in
\* sequence, starting with an empty cache, send one InternAtom request.
AtomMemoization ==
  \A n \in AtomNames :
    /\ \A i \in 1..(Len(returned[n]) - 1) :
         returned[n][i].ok =>
           /\ returned[n][i + 1].ok
           /\ returned[n][i + 1].atom = returned[n][i].atom
           /\ returned[n][i + 1].requests = 0
    /\ (Len(returned[n]) >= 2 /\ returned[n][1].ok /\ Calling(n) = 0) =>
         interned[n] = 1

TwoGetsSeen ==
  \E n \in AtomNames :
    /\ Len(returned[n]) = 2
    /\ returned[n][1].ok /\ returned[n][2].ok
    /\ returned[n][1].requests = 1
    /\ interned[n] = 1

\* The client whose frame the last ButtonPress named, 0 if it named none.
PressedPos == get_client_from_frame(pre.clients, event.window)
PressedClient == pre.clients[PressedPos]

\* The positions in config.mousebinds of the move and resize bindings of a button.
BindingsOf(button) ==
  {i \in 1..Len(config.mousebinds) :
     /\ config.mousebinds[i].bind = button
     /\ config.mousebinds[i].action \in {"WindowMove", "WindowResize"}}

\* The mode a binding enters for a client.
ModeOfBinding(i, client) ==
  IF config.mousebinds[i].action = "WindowMove"
    THEN ModeMove(client) ELSE ModeResize(client)

\* C11: between events, the client a Move or Resize mode tracks is a client of
\* the stack: removing it resets the mode to None.
ModeClientManaged ==
  mode.kind \in {"Move", "Resize"} =>
    \E i \in 1..Len(clients) : clients[i] = mode.client

\* C12: a ButtonPress on a managed frame whose button has more than one binding
\* enters the mode of the first of them in configuration order.
FirstBindingWins ==
  (/\ event.kind = "ButtonPress"
   /\ PressedPos # 0
   /\ Cardinality(BindingsOf(event.button)) > 1) =>
    mode = ModeOfBinding(Min(BindingsOf(event.button)), PressedClient)

\* C13: with the mode None, a ButtonPress on a managed frame whose button is
\* bound but whose modifier state is the modifier set of none of the bindings
\* with that button leaves the mode None.
ModifiersRespected ==
  (/\ event.kind = "ButtonPress"
   /\ PressedPos # 0
   /\ pre.mode = ModeNone
   /\ BindingsOf(event.button) # {}
   /\ \A i \in BindingsOf(event.button) :
        config.mousebinds[i].modifiers # event.state) =>
    mode = ModeNone

\* C14: a Move or Resize mode keeps its exact value across every press,
\* motion, key, create, map request and configure request event; only a
\* ButtonRelease ends the interaction.
ModeHeldUntilRelease ==
  (/\ pre.mode.kind \in {"Move", "Resize"}
   /\ event.kind \in {"ButtonPress", "PointerMotion", "KeyPress", "KeyRelease",
                      "WindowCreate", "WindowMapRequest",
                      "WindowConfigureRequest"}) =>
    mode = pre.mode

\* C15: a ButtonPress on a managed frame whose button has no binding changes
\* neither the mode nor the order of clients and issues no request.
UnboundPressIgnored ==
  (/\ event.kind = "ButtonPress"
   /\ PressedPos # 0
   /\ \A i \in 1..Len(config.mousebinds) :
        config.mousebinds[i].bind # event.button) =>
    /\ mode = pre.mode
    /\ clients = pre.clients
    /\ reqs = << >>

\* C16: a WindowConfigureRequest changes neither clients nor mode; for a
\* window with a client the frame and the window are configured with the
\* requested values under the requested mask, so that after a size request the
\* frame is as wide and as high as the window; for any other window that
\* window alone is configured.
ConfigurePropagates ==
  event.kind = "WindowConfigureRequest" =>
    /\ clients = pre.clients
    /\ mode = pre.mode
    /\ IF HadClient
         THEN /\ reqs = << Window_configure(OldClient.frame, event.changes,
                                            event.value_mask),
                           Window_configure(event.window, event.changes,
                                            event.value_mask) >>
              /\ {"width", "height"} \subseteq event.value_mask =>
                   /\ display.geom[OldClient.frame].width
                        = display.geom[event.window].width
                   /\ display.geom[OldClient.frame].height
                        = display.geom[event.window].height
         ELSE reqs = << Window_configure(event.window, event.changes,
                                         event.value_mask) >>

ConfigureSizeSeen ==
  /\ event.kind = "WindowConfigureRequest"
  /\ HadClient
  /\ event.value_mask = {"width", "height"}
  /\ display.geom[OldClient.frame].width = event.changes.width
  /\ display.geom[event.window].height = event.changes.height

\* C17: after each event, every client's frame is a child of the root, its
\* internal window is a child of the frame, and the frame has no other child.
FrameParentage ==
  \A i \in 1..Len(clients) :
    /\ display.parent[clients[i].frame] = Root
    /\ display.parent[clients[i].internal] = clients[i].frame
    /\ {k \in DOMAIN display.parent : display.parent[k] = clients[i].frame}
         = {clients[i].internal}

TwoFramedClientsSeen ==
  /\ Len(clients) = 2
  /\ event.kind = "ButtonPress"
  /\ PressedPos = 2
  /\ display.parent[clients[1].internal] = clients[1].frame
  /\ display.parent[clients[2].internal] = clients[2].frame

(* ------------------------------ Startup -------------------------------- *)
\* The positions of a request in the log of the starting window manager.
LogIndex(op) == {i \in DOMAIN boot_log : boot_log[i].op = op}
\* The requests of the scan: the enumeration and what push_client issues to
\* adopt a window.
ScanRequests ==
  LogIndex("XQueryTree") \cup LogIndex("XGetWindowAttributes")
    \cup LogIndex("XCreateSimpleWindow") \cup LogIndex("XReparentWindow")
\* The key and button grabs on the root window.
RootGrabs ==
  {i \in LogIndex("XGrabKey") \cup LogIndex("XGrabButton") :
     boot_log[i].window = Root}
Adopted == {boot.clients[i].internal : i \in DOMAIN boot.clients}
Found == {boot.found[i] : i \in DOMAIN boot.found}

\* C18: in WindowManager::new of wm.rs every request of the scan (the
\* enumeration of the root's children and the adoption of each) is issued
\* after the server grab is taken and before it is released; the enumeration
\* returns every window that exists, all of them are adopted when the grab is
\* released, and the grab is released before the first event is fetched.
ScanUnderGrab ==
  boot.impl = "xlib" =>
    /\ \A i \in ScanRequests :
         /\ \E g \in LogIndex("XGrabServer") : g < i
         /\ \A u \in LogIndex("XUngrabServer") : i < u
    /\ (boot.scanned /\ boot.grabbed) => Found = boot.windows
    /\ (boot.grabbed /\ Instr(boot) = "ungrab_server") => Adopted = boot.windows
    /\ LogIndex("XUngrabServer") # {} => (boot.scanned /\ Adopted = Found)
    /\ \A e \in LogIndex("XNextEvent") :
         /\ \E u \in LogIndex("XUngrabServer") : u < e
         /\ ~boot.grabbed
\* Two windows existed when the window manager started, both were adopted
\* under the grab, and the event loop has fetched its first event.
AdoptedAtStartupSeen ==
  /\ boot.impl = "xlib"
  /\ boot.result = "running"
  /\ Cardinality(Adopted) = 2
  /\ LogIndex("XNextEvent") # {}
ProtocolErrorKeepsLoop ==
  /\ handled.error = "protocol" => xwm.status = "running"
  /\ xwm.status # "running" => xwm.conn_error

(* -------------------------- Desktop, continued -------------------------- *)
\* C21: after a focus or a remove that returned Ok, the _NET_ACTIVE_WINDOW
\* last written to the root window is the window at index 0 of clients, or
\* none (never written, or xcb::NONE) when clients is empty.  The values are
\* compared as text: a property never written is Unset, not a window id.
ActiveWindowTracksTop ==
  (called.ok /\ called.op \in {"focus", "remove"}) =>
    IF desktop_clients = << >>
    THEN ToString(root_hints.active_window) \in {ToString(Unset), ToString(NoWindow)}
    ELSE ToString(root_hints.active_window) = ToString(desktop_clients[1])

(* ------------------------ AtomManager, continued ------------------------ *)
\* The get calls for a name that returned an error.
FailedGets(n) == {i \in DOMAIN returned[n] : ~returned[n][i].ok}

\* C22: whatever the order in which the threads' get calls for one name that
\* is not yet cached take the mutex, one InternAtom request is sent for the
\* name as long as no reply fails (never more than one beyond the failed
\* ones), and every caller that obtains an id obtains the same id.
OneInternPerName ==
  \A n \in AtomNames :
    /\ interned[n] <= Cardinality(FailedGets(n)) + 1
    /\ (FailedGets(n) = {} /\ Len(returned[n]) >= 1) => interned[n] = 1
    /\ \A i, j \in DOMAIN returned[n] :
         (returned[n][i].ok /\ returned[n][j].ok) =>
           returned[n][i].atom = returned[n][j].atom
\* Three calls for one name returned an id, the first of them after a round
\* trip, while one request was sent.
ThreeGetsOneInternSeen ==
  \E n \in AtomNames :
    /\ Len(returned[n]) = 3
    /\ FailedGets(n) = {}
    /\ returned[n][1].requests = 1
    /\ interned[n] = 1

(* ------------------------- Workspace, continued ------------------------- *)
\* C23: after a WindowUnmap or WindowDestroy that removed the client at index
\* 0 while other clients remained, the client now at index 0 carries the
\* focused border width and color and every other client the unfocused ones.
TopRemovalRefocuses ==
  (/\ event.kind \in {"WindowUnmap", "WindowDestroy"}
   /\ Len(pre.clients) >= 2
   /\ get_client(pre.clients, event.window) = 1) =>
    \A i \in 1..Len(clients) :
      display.border[clients[i].frame] =
        IF i = 1 THEN config.layout.border ELSE config.layout.border_unfocused

\* C24: with the mode None, a ButtonPress on the frame of a client c whose
\* button is bound to one action, WindowMove or WindowResize, puts c at index
\* 0 with the other clients in the order they had, records the press root
\* coordinates as the last pointer position and sets the mode to Move(c) or
\* Resize(c) as the binding says.
PressEntersMode ==
  (/\ event.kind = "ButtonPress"
   /\ PressedPos # 0
   /\ pre.mode = ModeNone
   /\ BindingsOf(event.button) # {}
   /\ \A i, j \in BindingsOf(event.button) :
        config.mousebinds[i].action = config.mousebinds[j].action) =>
    /\ clients = << PressedClient >> \o Remove(pre.clients, PressedPos)
    /\ prev_mouse = << event.x_root, event.y_root >>
    /\ mode = ModeOfBinding(Min(BindingsOf(event.button)), PressedClient)
\* The move button went down at x = 1 over the frame of the last of three
\* clients while the mode was None.
PressOnThirdClientSeen ==
  /\ event.kind = "ButtonPress"
  /\ pre.mode = ModeNone
  /\ Len(pre.clients) = 3
  /\ PressedPos = 3
  /\ event.button = 1
  /\ event.x_root = 1
  /\ mode = ModeMove(clients[1])

(* ------------------------- Event loop, continued ------------------------ *)
\* C25: after a ButtonRelease processed while the mode was MovingWindow the
\* mode is None, whatever button was released.
ReleaseEndsMoving ==
  (handled.event.kind = "ButtonRelease" /\ handled.mode = "MovingWindow") =>
    xwm.mode = "None"

\* The windows of a client stack, and of the client list last published (none
\* while the property was never written).
StackWindows(cs) == {cs[i] : i \in DOMAIN cs}
PublishedWindows(hints) ==
  IF ToString(hints.client_list) = ToString(Unset) THEN {}
  ELSE StackWindows(hints.client_list)

\* C26: a turn of the loop that processes a WindowDestroy or WindowUnmap for a
\* window that is in Desktop.clients leaves the window neither in clients nor
\* in the published client list.
DestroyedWindowDropped ==
  [][(/\ handled' # handled
      /\ handled'.event.kind \in {"WindowDestroy", "WindowUnmap"}
      /\ handled'.event.window \in StackWindows(desktop_clients)) =>
       /\ handled'.event.window \notin StackWindows(desktop_clients')
       /\ handled'.event.window \notin PublishedWindows(root_hints')]_vars

\* C27: while a thread is inside get waiting for the reply to its intern
\* request for one name, a get of another thread for a different name that is
\* in the cache can complete: its step is enabled.
CachedLookupNotBlocked ==
  \A t1, t2 \in Threads : \A n1, n2 \in AtomNames :
    (/\ t1 # t2 /\ n1 # n2
     /\ getting[t1] = n1
     /\ getting[t2] = ""
     /\ atoms[n2] # 0
     /\ Len(returned[n2]) + Calling(n2) < MaxCalls) =>
      ENABLED AtomGetCached(t2, n2)

\* C28: a WindowMapRequest that adopts a window issues, each once and in this
\* order: the creation of the frame under the root with the geometry the
\* window has, the frame's insertion into the save-set, the reparenting of
\* the window into the frame, the mapping of the frame, the mapping of the
\* window; focus_update, which inserts the client into clients after raising
\* the frame, runs after the reparenting.
PushOrder ==
  [][(/\ event'.kind = "WindowMapRequest"
      /\ get_client(clients, event'.window) = 0
      /\ get_client(clients', event'.window) # 0) =>
       LET w == event'.window
           f == clients'[get_client(clients', w)].frame
           a == Attributes(display, w)
           At(r) == {i \in 1..Len(reqs') : reqs'[i] = r}
           create == At(Window_create(f, Root, a.x, a.y, a.width, a.height,
                                      config.layout.border.width,
                                      config.layout.border.color))
           protect == At(Window_set_save_set(f, TRUE))
           reparent == At(Window_reparent(w, f))
           map_frame == At(Window_map(f))
           map_window == At(Window_map(w))
           raise == At(Window_raise(f))
       IN /\ \A S \in {create, protect, reparent, map_frame, map_window, raise} :
               Cardinality(S) = 1
          /\ \A c \in create, s \in protect, r \in reparent, mf \in map_frame,
                mw \in map_window, i \in raise :
               c < s /\ s < r /\ r < mf /\ mf < mw /\ r < i]_vars
\* A window that was moved to (0, 1) before it asked to be mapped has been
\* adopted: its frame was created there.
PushedAfterMoveSeen ==
  /\ event.kind = "WindowMapRequest"
  /\ pre.clients = << >>
  /\ Len(clients) = 1
  /\ display.parent[clients[1].internal] = clients[1].frame
  /\ display.geom[clients[1].frame].x = 0
  /\ display.geom[clients[1].frame].y = 1

\* C29: a pointer motion handled while the mode is Resize(c) reads the internal
\* window's size and requests, for c.internal and then for c.frame, the width
\* and height that size plus the pointer's displacement since the last pointer
\* position; no other window is configured, a request with a positive size takes
\* effect on both windows, and the last pointer position becomes the motion's.
ResizeBothByDelta ==
  [][ (event'.kind = "PointerMotion" /\ mode.kind = "Resize") =>
        LET c == mode.client
            width == Attributes(display, c.internal).width
                       + (event'.x_root - prev_mouse[1])
            height == Attributes(display, c.internal).height
                        + (event'.y_root - prev_mouse[2])
            configures == {i \in 1..Len(reqs') : reqs'[i].op = "XConfigureWindow"}
        IN /\ configures = {2, 3}
           /\ reqs'[2].window = c.internal
           /\ reqs'[3].window = c.frame
           /\ \A i \in configures :
                /\ reqs'[i].value_mask = {"width", "height"}
                /\ reqs'[i].changes.width = width
                /\ reqs'[i].changes.height = height
           /\ (width >= 1 /\ height >= 1) =>
                \A xid \in {c.internal, c.frame} :
                  /\ Attributes(display', xid).width = width
                  /\ Attributes(display', xid).height = height
           /\ prev_mouse' = << event'.x_root, event'.y_root >>
           /\ mode' = mode ]_vars

ResizedByMotionSeen ==
  /\ event.kind = "PointerMotion" /\ mode.kind = "Resize"
  /\ event.x_root = 1 /\ event.y_root = 1
  /\ Len(reqs) = 3
  /\ reqs[2].changes.width = 2 /\ reqs[3].changes.width = 2
  /\ reqs[2].changes.height = 2 /\ reqs[3].changes.height = 2
  /\ Attributes(display, mode.client.internal).width = 2
  /\ Attributes(display, mode.client.frame).width = 2
  /\ Attributes(display, mode.client.internal).height = 2
  /\ Attributes(display, mode.client.frame).height = 2

\* The internal windows of a client sequence.
Members(cs) == {cs[i].internal : i \in 1..Len(cs)}

\* C30: whenever handling an event has changed which windows are clients (a push
\* or a removal by WindowUnmap or WindowDestroy), the handler's last call, made
\* before the next event is read, is the layout delegate's config with the
\* whole current client sequence.
LayoutAfterMembershipChange ==
  (Members(clients) # Members(pre.clients)) =>
    /\ Len(reqs) > 0
    /\ reqs[Len(reqs)].op = "LayoutManager::config"
    /\ reqs[Len(reqs)].clients = clients

\* C31: handling a WindowUnmap or WindowDestroy for a window that has no client,
\* any WindowCreate, KeyPress, KeyRelease or Unknown event, or a PointerMotion
\* while the mode is None leaves clients and mode as they were, issues no
\* request, and leaves every frame's border width and colour as they were.
IgnoredEventsChangeNothing ==
  [][ (\/ event'.kind \in {"WindowCreate", "KeyPress", "KeyRelease", "Unknown"}
       \/ /\ event'.kind \in {"WindowUnmap", "WindowDestroy"}
          /\ get_client(clients, event'.window) = 0
       \/ event'.kind = "PointerMotion" /\ mode.kind = "None") =>
        /\ clients' = clients
        /\ mode' = mode
        /\ reqs' = << >>
        /\ \A f \in FrameIds : display'.border[f] = display.border[f] ]_vars

UnmapOfStrangerSeen ==
  /\ event.kind = "WindowUnmap"
  /\ get_client(clients, event.window) = 0
  /\ Len(clients) = 1
  /\ mode.kind = "Move"
  /\ reqs = << >>
  /\ display.border[clients[1].frame].width = config.layout.border.width

\* C32: when Desktop::focus(w) returns Ok, w is the first of clients and occurs
\* once in it, the other clients follow in the order they had before the call,
\* and the active-window hint is w and the client-list hint the new sequence,
\* whether or not the desktop held w before.
FocusMovesToFront ==
  [][ (called'.op = "focus" /\ called'.ok) =>
        LET w == called'.window
            others(cs) == SelectSeq(cs, LAMBDA c : c # w)
        IN /\ desktop_clients' # << >>
           /\ desktop_clients'[1] = w
           /\ Cardinality({i \in 1..Len(desktop_clients') : desktop_clients'[i] = w}) = 1
           /\ others(desktop_clients') = others(desktop_clients)
           /\ Len(others(desktop_clients')) = Len(desktop_clients') - 1
           /\ ToString(root_hints'.active_window) = ToString(w)
           /\ ToString(root_hints'.client_list) = ToString(desktop_clients') ]_vars

RefocusedFromBackSeen ==
  /\ called = [op |-> "focus", window |-> 1, ok |-> TRUE]
  /\ desktop_clients = << 1, 3, 2 >>
  /\ ToString(root_hints.active_window) = ToString(1)
  /\ ToString(root_hints.client_list) = ToString(desktop_clients)

\* The configured actions whose mouse binding has the button and exactly the
\* modifier mask of event e.
MatchingBinds(e) ==
  {i \in 1..Len(wm_config.actions) :
     /\ wm_config.actions[i].mousebind # << >>
     /\ wm_config.actions[i].mousebind[1].button = e.detail
     /\ wm_config.actions[i].mousebind[1].modifiers = e.state}

\* C33: a ButtonPress resolved while the mode is None returns the action of the
\* first configured action whose mouse binding has the event's button and
\* exactly its modifier mask, and the mode becomes MovingWindow exactly when
\* that action is FloatingWindowMove; with no such binding, or in another mode,
\* no action is returned and the mode stays as it was.
PressResolvesFirstBinding ==
  handled.event.kind = "ButtonPress" =>
    IF handled.mode = "None" /\ MatchingBinds(handled.event) # {}
    THEN LET first == wm_config.actions[Min(MatchingBinds(handled.event))]
         IN /\ handled.action = << first.action >>
            /\ xwm.mode = "MovingWindow" <=> first.action = "FloatingWindowMove"
    ELSE /\ handled.action = None
         /\ xwm.mode = handled.mode

TwiceBoundPressSeen ==
  /\ handled.event.kind = "ButtonPress"
  /\ handled.mode = "None"
  /\ Cardinality(MatchingBinds(handled.event)) = 2
  /\ handled.action = << "FloatingWindowMove" >>
  /\ xwm.mode = "MovingWindow"

\* C34: a pop(index) with a valid index, also when clients holds one client,
\* returns without a panic, takes exactly the client at index out of clients
\* with the others in their order, and leaves the new first client (if any)
\* with the focused border.
PopCompletes ==
  event.kind = "pop" =>
    /\ ~ panicked
    /\ clients = Remove(pre.clients, get_client(pre.clients, event.window))
    /\ clients # << >> => display.border[clients[1].frame] = config.layout.border

\* The frames in the server's stacking order, topmost first.
FrameStack == SelectSeq(display.stack, LAMBDA xid : xid \in FrameIds)

\* C35: after every event the frames' stacking order on the server, top to
\* bottom, is the order of the clients' frames from the first client on.
StackFollowsClients ==
  ~ panicked => FrameStack = [i \in 1..Len(clients) |-> clients[i].frame]

OlderFrameRaisedSeen ==
  /\ event.kind = "ButtonPress"
  /\ Len(clients) = 2
  /\ clients[1].frame < clients[2].frame
  /\ pre.clients = << clients[2], clients[1] >>
  /\ FrameStack = << clients[1].frame, clients[2].frame >>

\* The frames that have been created and not destroyed.
LiveFrames == {f \in FrameIds : Exists(display, f)}

\* C36: after each event the frames that exist on the server are the frames of
\* the clients, and they are the frames in the save-set.
FramesMatchClients ==
  /\ LiveFrames = {clients[i].frame : i \in 1..Len(clients)}
  /\ LiveFrames = display.save_set \cap FrameIds

\* C37: a pointer event (motion or release) handled while the mode is
\* MovingWindow issues no configure request and no map request (the request of
\* every move to the front of clients) for a window other than the one under
\* the press that began the move.
MoveTouchesPressedOnly ==
  (handled.mode = "MovingWindow"
   /\ handled.event.kind \in {"PointerMotion", "ButtonRelease"}) =>
    \A i \in 1..Len(handled.requests) :
      handled.requests[i].op \in {"configure_window", "map_window"} =>
        handled.requests[i].window = handled.pressed

\* C38: between events Desktop.last_mouse is Some only while the mode is
\* MovingWindow.
LastMouseOnlyWhileMoving ==
  xwm.last_mouse # None => xwm.mode = "MovingWindow"

ReleaseForgotMouseSeen ==
  /\ handled.event.kind = "ButtonRelease"
  /\ handled.mode = "MovingWindow"
  /\ handled.pressed # NoWindow
  /\ handled.action = << "FloatingWindowMove" >>
  /\ xwm.mode = "None"
  /\ xwm.last_mouse = None
  /\ xwm.status = "running"

\* The get calls for a name that sent an InternAtom request.
RequestingGets(n) == {i \in DOMAIN returned[n] : returned[n][i].requests = 1}

\* C39: a get whose InternAtom request fails returns the error and stores
\* nothing (a name has a cache entry only after a get for it obtained an id
\* from the server), the mutex is free once the call has returned, and the next
\* get for the name sends a new request.
FailedInternLeavesNoEntry ==
  /\ atoms_lock # 0 => getting[atoms_lock] # ""
  /\ \A n \in AtomNames :
       /\ atoms[n] # 0 => \E i \in RequestingGets(n) : returned[n][i].ok
       /\ \A i \in FailedGets(n) :
            /\ returned[n][i].requests = 1
            /\ \A j \in 1..(i - 1) : ~ returned[n][j].ok
            /\ i < Len(returned[n]) => returned[n][i + 1].requests = 1
       /\ interned[n] = Cardinality(RequestingGets(n)) + Calling(n)

RetryAfterFailureSeen ==
  \E n \in AtomNames :
    /\ Len(returned[n]) = 2
    /\ ~ returned[n][1].ok
    /\ returned[n][2].ok /\ returned[n][2].requests = 1
    /\ interned[n] = 2
    /\ atoms[n] = returned[n][2].atom
    /\ atoms_lock = 0

\* C40: a pointer motion that moves a window sends, as x and y of the configure
\* request, the mathematical value of position + (pointer - last_mouse), the
\* window's position and the pointer's coordinates being any i16 values: the
\* handler neither panics on an overflow nor sends a wrapped value.
MoveArithmeticExact ==
  [][ (/\ handled'.event.kind = "PointerMotion"
       /\ xwm'.created = xwm.created
       /\ xwm.mode = "MovingWindow"
       /\ xwm.last_mouse # None
       /\ handled'.event.child \in xwm.windows) =>
        LET e == handled'.event
            x == xwm.pos[e.child][1] + (e.root_x - xwm.last_mouse[1])
            y == xwm.pos[e.child][2] + (e.root_y - xwm.last_mouse[2])
        IN /\ handled'.error # "panic"
           /\ \E i \in 1..Len(handled'.requests) :
                handled'.requests[i] = configure_window_checked(e.child, x, y) ]_vars

====
